---------------------------- MODULE Spec2Model ----------------------------
(***************************************************************************)
(* Model of the previs/precombine build pipeline of generateprevisibines:  *)
(*   - the 8-step workflow engine            (src/src/workflow.rs)         *)
(*   - the Creation Kit runner               (src/src/tools/creation_kit.rs)*)
(*   - the FO4Edit runner                    (src/src/tools/fo4edit.rs)    *)
(*   - the DLL guard                         (src/src/tools/dll_manager.rs)*)
(*                                                                         *)
(* Two specifications share the module:                                    *)
(*   Spec      one call of WorkflowExecutor::run_from_step; a step         *)
(*             procedure is one action, a tool runner called by a step is  *)
(*             summarised by its return paths (CkOutcomes, XEditOutcomes). *)
(*   ToolSpec  the tool runners statement by statement: one call of a      *)
(*             CreationKitRunner or FO4EditRunner operation on the log     *)
(*             files and the game directory an earlier call left behind.   *)
(***************************************************************************)
EXTENDS Integers, Sequences, FiniteSets, TLC

VARIABLES
    \* ---- workflow.rs: WorkflowExecutor and its configuration -----------
    build_mode,        \* Config::build_mode
    interactive,       \* WorkflowExecutor::interactive
    archive_tool,      \* Config::archive_tool
    start_step,        \* argument of run_from_step
    pc,                \* position in run_from_step
    current_step,      \* local `current_step: Option<WorkflowStep>`
    \* ---- the files the steps read and write under <fo4_dir>/Data -------
    precombined_dir,   \* Data/meshes/precombined
    vis_dir,           \* Data/vis
    psg_file,          \* Data/<base> - Geometry.psg exists
    previs_esp,        \* Data/Previs.esp exists
    archive_file,      \* Data/<base> - Main.ba2 exists
    \* ---- observations of one run ---------------------------------------
    invoked,           \* steps handed to execute_step, in order
    skipped,           \* steps skipped by the clean-mode-only rule
    launches,          \* subordinate processes spawned: [step, tool]
    prompts,           \* answers given to prompt_clean_directory: [step, dir, answer]
    error,             \* error returned by run_from_step ("" if none)
    summary,           \* print_summary was called
    step_warnings,     \* warn!() records of the steps
    \* ---- the tool runners (creation_kit.rs, fo4edit.rs, dll_manager.rs) -
    t_op,              \* the runner operation in progress
    t_pc,              \* position inside run_with_dll_guard / run_script
    t_runs,            \* number of runner operations started so far
    log_file,          \* CreationKitRunner::log_file is Some
    ck_log,            \* the Creation Kit log file
    xe_log,            \* %TEMP%/UnattendedScript.log
    plugins_txt,       \* %TEMP%/Plugins.txt exists
    dlls,              \* the interfering DLL files in the game directory
    disabled_dlls,     \* DllManager::disabled_dlls
    guard,             \* a DllGuard is alive in run_with_dll_guard
    proc,              \* the subordinate process: "none", "running", "exited"
    status,            \* its exit code once it has exited
    polls,             \* loop counter `i` of wait_for_log_file
    t_result,          \* what the operation returned ("" while running)
    warnings,          \* warn!() records of the operation
    \* ---- the archive manager (archive.rs, mo2_helper.rs) ----------------
    a_tool,            \* ArchiveManager::tool
    a_op,              \* the ArchiveManager operation in progress
    a_mo2,             \* argument mo2_data_dir is Some
    a_xbox,            \* argument is_xbox
    a_pc,              \* position inside the operation
    a_src,             \* which directory is source_dir: "data" or "collect"
    a_archive,         \* Data/<archive_name>
    a_data,            \* Data/vis or Data/meshes/precombined
    a_collect,         \* Data/_temp_mo2_collect
    a_scratch,         \* Data/_temp_archive_extract
    a_staging,         \* <mo2 staging>/vis or <mo2 staging>/meshes/precombined
    a_closure,         \* local `result` of add_to_archive ("" for Ok)
    a_calls,           \* runs of the archiving tool: [tool, verb, xbox]
    a_trace,           \* file effects attempted, in order: [eff, ok]
    a_result,          \* what the operation returned ("" while running)
    \* ---- the MO2 collector (mo2_helper.rs) ------------------------------
    m_subpath,         \* argument subpath of collect_files_from_subpath
    m_search_path,     \* staging_dir/subpath: "missing", "file" or "dir"
    m_entries,         \* what WalkDir yields under search_path, in walk order
    m_traversal,       \* entries whose relative path has a `..` component
    m_temp_dir,        \* argument temp_dir: the destination directory
    m_pc,              \* position inside collect_files_from_subpath
    m_i,               \* the entry the copy loop is at
    m_file_count,      \* local file_count
    m_result           \* what collect returned ("" while running)

wfVars == <<build_mode, interactive, archive_tool, start_step, pc, current_step,
            precombined_dir, vis_dir, psg_file, previs_esp, archive_file,
            invoked, skipped, launches, prompts, error, summary, step_warnings>>

toolVars == <<t_op, t_pc, t_runs, log_file, ck_log, xe_log, plugins_txt, dlls,
              disabled_dlls, guard, proc, status, polls, t_result, warnings>>

archVars == <<a_tool, a_op, a_mo2, a_xbox, a_pc, a_src, a_archive, a_data,
              a_collect, a_scratch, a_staging, a_closure, a_calls, a_trace, a_result>>

mo2Vars == <<m_subpath, m_search_path, m_entries, m_traversal, m_temp_dir,
             m_pc, m_i, m_file_count, m_result>>

vars == <<wfVars, toolVars, archVars, mo2Vars>>

-----------------------------------------------------------------------------
(* config.rs *)

BuildMode == {"Clean", "Filtered", "Xbox"}

ArchiveTool == {"Archive2", "BSArch"}

-----------------------------------------------------------------------------
(* workflow.rs: enum WorkflowStep and its methods *)

WorkflowStep == {"GeneratePrecombined", "MergeCombinedObjects",
                 "CreatePrecombinedArchive", "CompressPSG", "BuildCDX",
                 "GeneratePrevis", "MergePrevis", "AddPrevisToArchive"}

None == "None"

number(step) ==
    CASE step = "GeneratePrecombined"      -> 1
      [] step = "MergeCombinedObjects"     -> 2
      [] step = "CreatePrecombinedArchive" -> 3
      [] step = "CompressPSG"              -> 4
      [] step = "BuildCDX"                 -> 5
      [] step = "GeneratePrevis"           -> 6
      [] step = "MergePrevis"              -> 7
      [] step = "AddPrevisToArchive"       -> 8

\* variant: only the PSG compression counts as clean-mode-only
is_clean_mode_only_psg(step) == step \in {"CompressPSG"}

is_clean_mode_only(step) == step \in {"CompressPSG", "BuildCDX"}

from_number(n) ==
    CASE n = 1 -> "GeneratePrecombined"
      [] n = 2 -> "MergeCombinedObjects"
      [] n = 3 -> "CreatePrecombinedArchive"
      [] n = 4 -> "CompressPSG"
      [] n = 5 -> "BuildCDX"
      [] n = 6 -> "GeneratePrevis"
      [] n = 7 -> "MergePrevis"
      [] n = 8 -> "AddPrevisToArchive"
      [] OTHER -> None

\* variant: the step before instead of the step after
next_backwards(step) == from_number(number(step) - 1)

next(step) == from_number(number(step) + 1)

-----------------------------------------------------------------------------
(* filesystem.rs and std::path: what the steps ask about a directory.      *)
(* A directory is "missing", "empty", "nonempty", or "locked": it exists   *)
(* and has entries but read_dir on it fails.                               *)

DirStates == {"missing", "empty", "nonempty", "locked"}

exists(dir) == dir # "missing"

\* variant: only a missing directory counts as empty
is_directory_empty_missing_only(dir) == ~exists(dir)

is_directory_empty(dir) ==
    IF ~exists(dir) THEN TRUE
    ELSE IF dir = "locked" THEN TRUE      \* read_dir Err: "Treating as empty."
    ELSE dir = "empty"

-----------------------------------------------------------------------------
(* prompts.rs: prompt_clean_directory returns Ok(true), Ok(false) or Err   *)

Answers == {"yes", "no", "err"}


-----------------------------------------------------------------------------
(* What a step procedure returns and leaves behind: the Result, the files  *)
(* under Data, the processes it spawned and the prompts it asked.          *)

Unchanged ==
    [ok |-> TRUE, err |-> "",
     precombined_dir |-> precombined_dir, vis_dir |-> vis_dir,
     psg_file |-> psg_file, previs_esp |-> previs_esp,
     archive_file |-> archive_file,
     launched |-> <<>>, asked |-> <<>>, warned |-> {}]

Fail(r, kind) == [r EXCEPT !.ok = FALSE, !.err = kind]

\* variant: a non-interactive run clears the directory without asking
check_and_clean_directory_auto(dir, answer, rmOk, mkOk) ==
    IF ~exists(dir) THEN [ok |-> TRUE, err |-> "", dir |-> dir, asked |-> "none"]
    ELSE IF is_directory_empty(dir)
         THEN [ok |-> TRUE, err |-> "", dir |-> dir, asked |-> "none"]
    ELSE IF interactive /\ answer # "yes"
         THEN [ok |-> FALSE, err |-> "DirectoryNotEmpty", dir |-> dir, asked |-> "no"]
    ELSE [ok |-> TRUE, err |-> "", dir |-> "empty",
          asked |-> IF interactive THEN "yes" ELSE "none"]

(* workflow.rs:269-297.  answer: what prompt_clean_directory returns;      *)
(* rmOk, mkOk: whether remove_dir_all / create_dir_all succeed.            *)
check_and_clean_directory(dir, answer, rmOk, mkOk) ==
    IF ~exists(dir) THEN [ok |-> TRUE, err |-> "", dir |-> dir, asked |-> "none"]
    ELSE IF is_directory_empty(dir)
         THEN [ok |-> TRUE, err |-> "", dir |-> dir, asked |-> "none"]
    ELSE IF interactive
         THEN IF answer = "err"
              THEN [ok |-> FALSE, err |-> "PromptFailed", dir |-> dir, asked |-> "err"]
              ELSE IF answer = "yes"
              THEN IF ~rmOk
                   THEN [ok |-> FALSE, err |-> "IoError", dir |-> dir, asked |-> "yes"]
                   ELSE IF ~mkOk
                   THEN [ok |-> FALSE, err |-> "IoError", dir |-> "missing", asked |-> "yes"]
                   ELSE [ok |-> TRUE, err |-> "", dir |-> "empty", asked |-> "yes"]
              ELSE [ok |-> FALSE, err |-> "DirectoryNotEmpty", dir |-> dir, asked |-> "no"]
    ELSE [ok |-> FALSE, err |-> "DirectoryNotEmpty", dir |-> dir, asked |-> "none"]

Asked(dirName, c) ==
    IF c.asked = "none" THEN <<>> ELSE << [dir |-> dirName, answer |-> c.asked] >>

(* The return paths of a Creation Kit operation (creation_kit.rs:495-567,  *)
(* 414-437), as the steps see them:                                        *)
(*   "NotLaunched"  an error before the process was spawned (old log not   *)
(*                  deletable, DLL rename failed, spawn failed)            *)
(*   "LaunchedErr"  the process ran and the log classification failed      *)
(*   "LaunchedOk"   the process ran and Ok(()) was returned                *)
CkOutcomes == {"NotLaunched", "LaunchedErr", "LaunchedOk"}

(* The return paths of FO4EditRunner::run_script (fo4edit.rs:459-557).     *)
XEditOutcomes == {"NotLaunched", "LaunchedErr", "LaunchedOk"}

(* A directory after a subordinate process wrote files into it.            *)
Populated(dir) == IF dir = "locked" THEN "locked" ELSE "nonempty"

\* variant of step 1 in which a missing PSG file is an error
step1_generate_precombined_psg_required(e) ==
    LET c1 == check_and_clean_directory(precombined_dir, e.a1, e.rm1, e.mk1)
        r1 == [Unchanged EXCEPT !.precombined_dir = c1.dir,
                                !.asked = Asked("meshes\\precombined", c1)]
    IN IF ~c1.ok THEN Fail(r1, c1.err) ELSE
    LET c2 == check_and_clean_directory(vis_dir, e.a2, e.rm2, e.mk2)
        r2 == [r1 EXCEPT !.vis_dir = c2.dir,
                         !.asked = r1.asked \o Asked("vis", c2)]
    IN IF ~c2.ok THEN Fail(r2, c2.err) ELSE
       IF ~e.ck_log_path THEN Fail(r2, "CkLogNotConfigured") ELSE
       IF e.ck = "NotLaunched" THEN Fail(r2, "CreationKitNotRun") ELSE
    LET r3 == [r2 EXCEPT !.launched = <<"CreationKit">>,
                         !.precombined_dir =
                              IF e.wrote_dir THEN Populated(c1.dir) ELSE c1.dir,
                         !.psg_file = psg_file \/ e.wrote_file]
    IN IF e.ck = "LaunchedErr" THEN Fail(r3, "CreationKitLog") ELSE
       IF ~exists(r3.precombined_dir) \/ is_directory_empty(r3.precombined_dir)
       THEN Fail(r3, "NoPrecombinedGenerated") ELSE
       IF build_mode = "Clean" /\ ~r3.psg_file
       THEN Fail(r3, "PsgNotCreated")
       ELSE r3

(* workflow.rs:329-372.  e: the answers, I/O results and tool behaviour    *)
(* the step meets.                                                         *)
step1_generate_precombined(e) ==
    LET c1 == check_and_clean_directory(precombined_dir, e.a1, e.rm1, e.mk1)
        r1 == [Unchanged EXCEPT !.precombined_dir = c1.dir,
                                !.asked = Asked("meshes\\precombined", c1)]
    IN IF ~c1.ok THEN Fail(r1, c1.err) ELSE
    LET c2 == check_and_clean_directory(vis_dir, e.a2, e.rm2, e.mk2)
        r2 == [r1 EXCEPT !.vis_dir = c2.dir,
                         !.asked = r1.asked \o Asked("vis", c2)]
    IN IF ~c2.ok THEN Fail(r2, c2.err) ELSE
       IF ~e.ck_log_path THEN Fail(r2, "CkLogNotConfigured") ELSE
       IF e.ck = "NotLaunched" THEN Fail(r2, "CreationKitNotRun") ELSE
    LET r3 == [r2 EXCEPT !.launched = <<"CreationKit">>,
                         !.precombined_dir =
                              IF e.wrote_dir THEN Populated(c1.dir) ELSE c1.dir,
                         !.psg_file = psg_file \/ e.wrote_file]
    IN IF e.ck = "LaunchedErr" THEN Fail(r3, "CreationKitLog") ELSE
       IF ~exists(r3.precombined_dir) \/ is_directory_empty(r3.precombined_dir)
       THEN Fail(r3, "NoPrecombinedGenerated") ELSE
       IF build_mode = "Clean" /\ ~r3.psg_file
       THEN [r3 EXCEPT !.warned = {"PsgNotCreated"}]
       ELSE r3

(* workflow.rs:388-407 *)
step2_merge_combined_objects(e) ==
    IF ~exists(precombined_dir) \/ is_directory_empty(precombined_dir)
    THEN Fail(Unchanged, "NoPrecombinedFound") ELSE
    IF e.xedit = "NotLaunched" THEN Fail(Unchanged, "FO4EditNotRun") ELSE
    LET r == [Unchanged EXCEPT !.launched = <<"FO4Edit">>]
    IN IF e.xedit = "LaunchedErr" THEN Fail(r, "FO4EditLog") ELSE r


(* The ways one run of an archiving tool ends (archive.rs:803-817,         *)
(* 849-865, 901-920): Command::output() fails, or the exit status is       *)
(* tested with status.success().                                           *)
PackOutcomes == {"SpawnFailed", "ExitFailure", "ExitSuccess"}

(* Mo2Helper::collect_* as archive.rs sees it: Err, Ok(None), Ok(Some(_))  *)
CollectOutcomes == {"Err", "None", "Some"}

(* fs::remove_dir_all fails on a path that does not exist.                 *)
RemoveDirOk(dir, rmOk) == exists(dir) /\ rmOk

(* workflow.rs:425-452 with archive.rs:404-444 (create_archive_from_       *)
(* precombines) and archive.rs:291-318 (create_archive).                   *)
(* e.mo2: Config::mo2_data_dir is Some; e.wrote_file: the tool wrote the   *)
(* archive file.                                                           *)
step3_create_precombined_archive(e) ==
    IF e.mo2 /\ e.collect = "Err"  THEN Fail(Unchanged, "Mo2CollectFailed") ELSE
    IF e.mo2 /\ e.collect = "None" THEN Fail(Unchanged, "NoPrecombinedInMo2") ELSE
    IF e.pack = "SpawnFailed" THEN Fail(Unchanged, "ArchiveToolNotRun") ELSE
    LET r1 == [Unchanged EXCEPT !.launched = <<archive_tool>>,
                                !.archive_file = archive_file \/ e.wrote_file]
    IN IF e.pack = "ExitFailure" THEN Fail(r1, "ArchiveToolFailed") ELSE
       IF archive_tool = "Archive2"
       THEN IF e.mo2
            THEN IF e.rmOk THEN r1 ELSE Fail(r1, "IoError")
            ELSE IF RemoveDirOk(precombined_dir, e.rmOk)
                 THEN [r1 EXCEPT !.precombined_dir = "missing"]
                 ELSE Fail(r1, "IoError")
       ELSE IF e.mo2 /\ ~e.rmOk THEN Fail(r1, "IoError") ELSE r1

(* workflow.rs:474-508 *)
step4_compress_psg(e) ==
    IF ~psg_file THEN Fail(Unchanged, "PsgNotFound") ELSE
    IF ~e.ck_log_path THEN Fail(Unchanged, "CkLogNotConfigured") ELSE
    IF e.ck = "NotLaunched" THEN Fail(Unchanged, "CreationKitNotRun") ELSE
    LET r == [Unchanged EXCEPT !.launched = <<"CreationKit">>]
    IN IF e.ck = "LaunchedErr" THEN Fail(r, "CreationKitLog") ELSE
       IF ~e.rmOk THEN Fail(r, "PsgDeleteFailed")
       ELSE [r EXCEPT !.psg_file = FALSE]

(* workflow.rs:518-536 *)
step5_build_cdx(e) ==
    IF ~e.ck_log_path THEN Fail(Unchanged, "CkLogNotConfigured") ELSE
    IF e.ck = "NotLaunched" THEN Fail(Unchanged, "CreationKitNotRun") ELSE
    LET r == [Unchanged EXCEPT !.launched = <<"CreationKit">>]
    IN IF e.ck = "LaunchedErr" THEN Fail(r, "CreationKitLog") ELSE r

(* workflow.rs:565-594 *)
step6_generate_previs(e) ==
    LET c1 == check_and_clean_directory(vis_dir, e.a1, e.rm1, e.mk1)
        r1 == [Unchanged EXCEPT !.vis_dir = c1.dir, !.asked = Asked("vis", c1)]
    IN IF ~c1.ok THEN Fail(r1, c1.err) ELSE
       IF ~e.ck_log_path THEN Fail(r1, "CkLogNotConfigured") ELSE
       IF e.ck = "NotLaunched" THEN Fail(r1, "CreationKitNotRun") ELSE
    LET r2 == [r1 EXCEPT !.launched = <<"CreationKit">>,
                         !.vis_dir = IF e.wrote_dir THEN Populated(c1.dir) ELSE c1.dir,
                         !.previs_esp = previs_esp \/ e.wrote_file]
    IN IF e.ck = "LaunchedErr" THEN Fail(r2, "CreationKitLog") ELSE
       IF ~exists(r2.vis_dir) \/ is_directory_empty(r2.vis_dir)
       THEN Fail(r2, "NoPrevisGenerated")
       ELSE r2

\* variant: step 7 without the Previs.esp pre-check
step7_merge_previs_no_esp_check(e) ==
    IF ~exists(vis_dir) \/ is_directory_empty(vis_dir)
    THEN Fail(Unchanged, "NoPrevisFound") ELSE
    IF e.xedit = "NotLaunched" THEN Fail(Unchanged, "FO4EditNotRun") ELSE
    LET r == [Unchanged EXCEPT !.launched = <<"FO4Edit">>]
    IN IF e.xedit = "LaunchedErr" THEN Fail(r, "FO4EditLog") ELSE r

(* workflow.rs:612-637 *)
step7_merge_previs(e) ==
    IF ~exists(vis_dir) \/ is_directory_empty(vis_dir)
    THEN Fail(Unchanged, "NoPrevisFound") ELSE
    IF ~previs_esp THEN Fail(Unchanged, "PrevisEspNotFound") ELSE
    IF e.xedit = "NotLaunched" THEN Fail(Unchanged, "FO4EditNotRun") ELSE
    LET r == [Unchanged EXCEPT !.launched = <<"FO4Edit">>]
    IN IF e.xedit = "LaunchedErr" THEN Fail(r, "FO4EditLog") ELSE r

(* workflow.rs:657-684 with archive.rs:726-766 (add_previs_to_archive) and *)
(* archive.rs:556-619 (add_to_archive).  e.tmpOk: the scratch directory    *)
(* could be (re)created; e.extract, e.pack: how the tool runs end;         *)
(* e.copyOk, e.delOk, e.rmOk: copy_dir_recursive, remove_file(archive),    *)
(* remove_dir_all(source) succeed.                                         *)
step8_add_previs_to_archive(e) ==
    IF e.mo2 /\ e.collect = "Err"  THEN Fail(Unchanged, "Mo2CollectFailed") ELSE
    IF e.mo2 /\ e.collect = "None" THEN Fail(Unchanged, "NoPrevisInMo2") ELSE
    IF ~archive_file THEN Fail(Unchanged, "ArchiveMissing") ELSE
    IF archive_tool = "BSArch"
    THEN IF e.pack = "SpawnFailed" THEN Fail(Unchanged, "ArchiveToolNotRun") ELSE
         LET r == [Unchanged EXCEPT !.launched = <<"BSArch">>]
         IN IF e.pack = "ExitFailure" THEN Fail(r, "ArchiveToolFailed") ELSE
            IF e.mo2 /\ ~e.rmOk THEN Fail(r, "IoError") ELSE r
    ELSE IF ~e.tmpOk THEN Fail(Unchanged, "IoError") ELSE
         IF e.extract = "SpawnFailed" THEN Fail(Unchanged, "ArchiveToolNotRun") ELSE
         LET r1 == [Unchanged EXCEPT !.launched = <<"Archive2">>]
         IN IF e.extract = "ExitFailure" THEN Fail(r1, "ArchiveToolFailed") ELSE
            IF ~e.copyOk \/ (~e.mo2 /\ ~exists(vis_dir)) THEN Fail(r1, "IoError") ELSE
            IF ~e.delOk THEN Fail(r1, "IoError") ELSE
         LET r2 == [r1 EXCEPT !.archive_file = FALSE]
         IN IF e.pack = "SpawnFailed" THEN Fail(r2, "ArchiveToolNotRun") ELSE
         LET r3 == [r2 EXCEPT !.launched = <<"Archive2", "Archive2">>,
                              !.archive_file = e.wrote_file]
         IN IF e.pack = "ExitFailure" THEN Fail(r3, "ArchiveToolFailed") ELSE
            IF e.mo2
            THEN IF e.rmOk THEN r3 ELSE Fail(r3, "IoError")
            ELSE IF RemoveDirOk(vis_dir, e.rmOk)
                 THEN [r3 EXCEPT !.vis_dir = "missing"]
                 ELSE Fail(r3, "IoError")

(* What the text of the error that ends `step` tells its reader          *)
(* (anyhow messages; run_from_step adds no context, workflow.rs:144).     *)
(*   step      the step the wording names, by number, by name or by the   *)
(*             runner operation started for it; None when it names none   *)
(*   pattern   the text quotes the log pattern that was matched           *)
(*   log_path  the text holds the path of the log file                    *)
(* "FO4EditLog": fo4edit.rs:1068-1074, "FO4Edit {operation} failed:       *)
(* '{LOG_ERROR}' found in log.\nLog file: {path}".  "CreationKitLog":     *)
(* creation_kit.rs:652-659 and 427-431, "... '{pattern}' found in log."   *)
(* with two lines of advice.  workflow.rs:393 and 617 name the step to    *)
(* run first.  Every other text names no step, pattern or log.            *)
ErrorText(kind, step) ==
    CASE kind = "FO4EditLog" ->
           [step |-> step, pattern |-> TRUE, log_path |-> TRUE]
      [] kind = "CreationKitLog" ->
           [step |-> None, pattern |-> TRUE, log_path |-> FALSE]
      [] kind = "NoPrecombinedFound" ->
           [step |-> "GeneratePrecombined", pattern |-> FALSE, log_path |-> FALSE]
      [] kind = "NoPrevisFound" ->
           [step |-> "GeneratePrevis", pattern |-> FALSE, log_path |-> FALSE]
      [] OTHER ->
           [step |-> None, pattern |-> FALSE, log_path |-> FALSE]

(* workflow.rs:155-166 *)
execute_step(step, e) ==
    CASE step = "GeneratePrecombined"      -> step1_generate_precombined(e)
      [] step = "MergeCombinedObjects"     -> step2_merge_combined_objects(e)
      [] step = "CreatePrecombinedArchive" -> step3_create_precombined_archive(e)
      [] step = "CompressPSG"              -> step4_compress_psg(e)
      [] step = "BuildCDX"                 -> step5_build_cdx(e)
      [] step = "GeneratePrevis"           -> step6_generate_previs(e)
      [] step = "MergePrevis"              -> step7_merge_previs(e)
      [] step = "AddPrevisToArchive"       -> step8_add_previs_to_archive(e)


-----------------------------------------------------------------------------
(* Log files.  A log is described by whether it exists, which of the       *)
(* phrases the runners look for occur in it, and whether it holds text     *)
(* written before the current operation started (stale).                   *)

HANDLE_LIMIT_ERROR == "OUT OF HANDLE ARRAY ENTRIES"

PREVIS_ERROR == "visibility task did not complete"

LOG_SUCCESS == "Completed: No Errors."

LOG_ERROR == "Error:"

\* the phrases tracked in a Creation Kit log and in an FO4Edit log
CkPhrases == {HANDLE_LIMIT_ERROR, PREVIS_ERROR, LOG_ERROR}

XePhrases == {LOG_ERROR, LOG_SUCCESS}

NoLog == [exists |-> FALSE, content |-> {}, stale |-> FALSE]

\* the logs an earlier operation may have left behind
StaleLogs(phrases) ==
    {NoLog} \cup {[exists |-> TRUE, content |-> c, stale |-> TRUE] : c \in SUBSET phrases}

\* str::contains on the text of a log
contains(log_content, pattern) == pattern \in log_content

\* variant: the old log is left in place
RemoveLog_keep(log) == log

\* fs::remove_file on a log
RemoveLog(log) == NoLog

\* the subordinate process writes `text`: a new file, or more text in a
\* file that is already there
WriteLog(log, text) ==
    IF log.exists THEN [log EXCEPT !.content = log.content \cup text]
    ELSE [exists |-> TRUE, content |-> text, stale |-> FALSE]

-----------------------------------------------------------------------------
(* dll_manager.rs *)

\* number of entries of INTERFERING_DLLS that are modelled
NumDlls == 2

INTERFERING_DLLS == 1..NumDlls

\* a file of the game directory that is not in the list ("other.dll" of
\* tests::test_scan_finds_interfering_dlls, dll_manager.rs:421)
OtherDll == 0

GameFiles == INTERFERING_DLLS \cup {OtherDll}

\* what exists of a file <name>: nothing, <name>, <name>-PJMdisabled, or
\* both of them
DllStates == {"absent", "present", "disabled", "both"}

\* Path::exists of <name> and of <name>-PJMdisabled
OriginalExists(st) == st \in {"present", "both"}

DisabledExists(st) == st \in {"disabled", "both"}

RECURSIVE ScanFrom(_, _)

\* variant of ScanFrom that returns every candidate, whether it exists or
\* not
ScanFrom_all(files, i) == [k \in 1..(NumDlls + 1 - i) |-> i + k - 1]

\* dll_manager.rs:137-148: the candidates that exist, in list order
ScanFrom(files, i) ==
    IF i > NumDlls THEN <<>>
    ELSE (IF OriginalExists(files[i]) THEN <<i>> ELSE <<>>) \o ScanFrom(files, i + 1)

\* variant: the scan finds nothing
scan_none(files) == <<>>

scan(files) == ScanFrom(files, 1)

\* variant: a failed rename is not reported
disable_dlls_silent(files, recorded, failAt) ==
    LET found == scan(files)
        n     == IF failAt = 0 \/ failAt > Len(found) THEN Len(found) ELSE failAt - 1
        done  == SubSeq(found, 1, n)
        isDone(d) == \E j \in 1..n : found[j] = d
    IN [ok       |-> TRUE,
        count    |-> n,
        files    |-> [d \in DOMAIN files |->
                         IF isDone(d) THEN "disabled" ELSE files[d]],
        recorded |-> recorded \o done]

(* dll_manager.rs:193-231.  failAt = k > 0: the k-th fs::rename fails;     *)
(* failAt = 0: none fails.  Returns the Result, the files and the vector   *)
(* disabled_dlls after the call.  fs::rename replaces a file that is       *)
(* already there under the new name.                                       *)
disable_dlls(files, recorded, failAt) ==
    LET found == scan(files)
        n     == IF failAt = 0 \/ failAt > Len(found) THEN Len(found) ELSE failAt - 1
        done  == SubSeq(found, 1, n)
        isDone(d) == \E j \in 1..n : found[j] = d
    IN [ok       |-> (n = Len(found)),
        count    |-> n,
        files    |-> [d \in DOMAIN files |->
                         IF isDone(d) THEN "disabled" ELSE files[d]],
        recorded |-> recorded \o done]

RECURSIVE RestoreFrom(_, _, _, _, _)

\* variant: a recorded file that is gone makes the restore fail
RestoreFrom_strict(files, recorded, i, failAt, seen) ==
    IF i > Len(recorded)
    THEN [ok |-> TRUE, files |-> files, restored |-> seen, missing |-> {}]
    ELSE LET d == recorded[i]
         IN IF DisabledExists(files[d])
            THEN IF failAt = seen + 1
                 THEN [ok |-> FALSE, files |-> files, restored |-> seen, missing |-> {}]
                 ELSE RestoreFrom([files EXCEPT ![d] = "present"], recorded,
                                  i + 1, failAt, seen + 1)
            ELSE [ok |-> FALSE, files |-> files, restored |-> seen, missing |-> {d}]

(* dll_manager.rs:279-320.  failAt = k > 0: the rename of the k-th         *)
(* recorded file that still exists fails; the vector is cleared only when  *)
(* the loop ran to its end.                                                *)
RestoreFrom(files, recorded, i, failAt, seen) ==
    IF i > Len(recorded)
    THEN [ok |-> TRUE, files |-> files, restored |-> seen, missing |-> {}]
    ELSE LET d == recorded[i]
         IN IF DisabledExists(files[d])
            THEN IF failAt = seen + 1
                 THEN [ok |-> FALSE, files |-> files, restored |-> seen, missing |-> {}]
                 ELSE RestoreFrom([files EXCEPT ![d] = "present"], recorded,
                                  i + 1, failAt, seen + 1)
            ELSE LET rest == RestoreFrom(files, recorded, i + 1, failAt, seen)
                 IN [rest EXCEPT !.missing = rest.missing \cup {d}]

\* variant: the vector is cleared without renaming anything back
restore_dlls_forget(files, recorded, failAt) ==
    [ok |-> TRUE, count |-> 0, files |-> files, recorded |-> <<>>, missing |-> {}]

restore_dlls(files, recorded, failAt) ==
    IF recorded = <<>>
    THEN [ok |-> TRUE, count |-> 0, files |-> files, recorded |-> recorded,
          missing |-> {}]
    ELSE LET r == RestoreFrom(files, recorded, 1, failAt, 0)
         IN [ok       |-> r.ok,
             count    |-> r.restored,
             files    |-> r.files,
             recorded |-> IF r.ok THEN <<>> ELSE recorded,
             missing  |-> r.missing]

-----------------------------------------------------------------------------
(* creation_kit.rs: the log classification *)

\* variant of ck_check_log_for_errors that also fails on PREVIS_ERROR
ck_check_log_for_errors_previs(cfg, log, readOk) ==
    IF ~cfg THEN [res |-> "Ok", warn |-> {"NoLogConfigured"}]
    ELSE IF ~log.exists THEN [res |-> "Ok", warn |-> {"LogNotCreated"}]
    ELSE IF ~readOk THEN [res |-> "LogReadFailed", warn |-> {}]
    ELSE IF contains(log.content, HANDLE_LIMIT_ERROR)
         THEN [res |-> "HandleLimit", warn |-> {}]
    ELSE IF contains(log.content, PREVIS_ERROR)
         THEN [res |-> "PrevisFailed", warn |-> {}]
    ELSE [res |-> "Ok", warn |-> {}]

(* creation_kit.rs:637-661.  cfg: log_file is Some; readOk: read_to_string *)
(* succeeds.  Returns the Result and the warning it records.               *)
ck_check_log_for_errors(cfg, log, readOk) ==
    IF ~cfg THEN [res |-> "Ok", warn |-> {"NoLogConfigured"}]
    ELSE IF ~log.exists THEN [res |-> "Ok", warn |-> {"LogNotCreated"}]
    ELSE IF ~readOk THEN [res |-> "LogReadFailed", warn |-> {}]
    ELSE IF contains(log.content, HANDLE_LIMIT_ERROR)
         THEN [res |-> "HandleLimit", warn |-> {}]
    ELSE [res |-> "Ok", warn |-> {}]

\* variant: a non-zero exit code is an error
ck_after_exit_by_code(cfg, log, readOk, code) ==
    IF code # 0 THEN [res |-> "ExitCode", warn |-> {}]
    ELSE ck_check_log_for_errors(cfg, log, readOk)

(* creation_kit.rs:553-566: the value run_with_dll_guard returns once the  *)
(* process has exited with `code`, and the warnings it records.            *)
ck_after_exit(cfg, log, readOk, code) ==
    LET c == ck_check_log_for_errors(cfg, log, readOk)
    IN IF c.res # "Ok" THEN c
       ELSE [res  |-> "Ok",
             warn |-> c.warn \cup (IF code # 0 THEN {"NonZeroExit"} ELSE {})]

(* creation_kit.rs:420-436: the extra check of generate_previs *)
ck_previs_check(cfg, log, readOk) ==
    IF cfg /\ log.exists
    THEN IF ~readOk THEN "LogReadFailed"
         ELSE IF contains(log.content, PREVIS_ERROR) THEN "PrevisFailed"
         ELSE "Ok"
    ELSE "Ok"

\* variant: a missing FO4Edit log is a warning
xe_check_log_for_errors_lenient(log, readOk) ==
    IF ~log.exists THEN [res |-> "Ok", warn |-> {"LogNotCreated"}]
    ELSE IF ~readOk THEN [res |-> "LogReadFailed", warn |-> {}]
    ELSE IF contains(log.content, LOG_ERROR) THEN [res |-> "LogError", warn |-> {}]
    ELSE IF ~contains(log.content, LOG_SUCCESS)
         THEN [res |-> "Ok", warn |-> {"NoSuccessMessage"}]
    ELSE [res |-> "Ok", warn |-> {}]

(* fo4edit.rs:1059-1085 *)
xe_check_log_for_errors(log, readOk) ==
    IF ~log.exists THEN [res |-> "LogNotFound", warn |-> {}]
    ELSE IF ~readOk THEN [res |-> "LogReadFailed", warn |-> {}]
    ELSE IF contains(log.content, LOG_ERROR) THEN [res |-> "LogError", warn |-> {}]
    ELSE IF ~contains(log.content, LOG_SUCCESS)
         THEN [res |-> "Ok", warn |-> {"NoSuccessMessage"}]
    ELSE [res |-> "Ok", warn |-> {}]

-----------------------------------------------------------------------------
(* What the environment can answer to each step: prompt answers, results   *)
(* of file operations, configuration options read by the step, and the     *)
(* behaviour of the subordinate process.  A choice that is never consulted *)
(* because an earlier one already ended the step is fixed to one value, so *)
(* that each distinct course of a step is enumerated once.                 *)

\* remove_dir_all / create_dir_all are only reached after the answer "yes"
CleanChoice(a, rm, mk) == /\ (a # "yes" => rm /\ mk)
                          /\ (~rm => mk)

\* the process writes files only if it was launched, and is only launched
\* when the log path is configured
CkChoice(cfg, ck, wd, wf) == /\ (~cfg => ck = "NotLaunched")
                             /\ (ck = "NotLaunched" => ~wd /\ ~wf)

\* overlay collection happens only in MO2 mode
Mo2Choice(mo2, collect) == ~mo2 => collect = "Some"

Env1 == {e \in [a1 : Answers, rm1 : BOOLEAN, mk1 : BOOLEAN,
                a2 : Answers, rm2 : BOOLEAN, mk2 : BOOLEAN,
                ck_log_path : BOOLEAN, ck : CkOutcomes,
                wrote_dir : BOOLEAN, wrote_file : BOOLEAN] :
            /\ CleanChoice(e.a1, e.rm1, e.mk1)
            /\ CleanChoice(e.a2, e.rm2, e.mk2)
            /\ CkChoice(e.ck_log_path, e.ck, e.wrote_dir, e.wrote_file)}

Env2 == [xedit : XEditOutcomes]

Env3 == {e \in [mo2 : BOOLEAN, collect : CollectOutcomes, pack : PackOutcomes,
                wrote_file : BOOLEAN, rmOk : BOOLEAN] :
            /\ Mo2Choice(e.mo2, e.collect)
            /\ (e.collect # "Some" => e.pack = "SpawnFailed")
            /\ (e.pack = "SpawnFailed" => ~e.wrote_file)
            /\ (e.pack # "ExitSuccess" => e.rmOk)}

Env4 == {e \in [ck_log_path : BOOLEAN, ck : CkOutcomes, rmOk : BOOLEAN] :
            /\ (~e.ck_log_path => e.ck = "NotLaunched")
            /\ (e.ck # "LaunchedOk" => e.rmOk)}

Env5 == {e \in [ck_log_path : BOOLEAN, ck : CkOutcomes] :
            ~e.ck_log_path => e.ck = "NotLaunched"}

Env6 == {e \in [a1 : Answers, rm1 : BOOLEAN, mk1 : BOOLEAN,
                ck_log_path : BOOLEAN, ck : CkOutcomes,
                wrote_dir : BOOLEAN, wrote_file : BOOLEAN] :
            /\ CleanChoice(e.a1, e.rm1, e.mk1)
            /\ CkChoice(e.ck_log_path, e.ck, e.wrote_dir, e.wrote_file)}

Env7 == [xedit : XEditOutcomes]

Env8 == {e \in [mo2 : BOOLEAN, collect : CollectOutcomes, tmpOk : BOOLEAN,
                extract : PackOutcomes, copyOk : BOOLEAN, delOk : BOOLEAN,
                pack : PackOutcomes, wrote_file : BOOLEAN, rmOk : BOOLEAN] :
            /\ Mo2Choice(e.mo2, e.collect)
            /\ (e.collect # "Some" => e.tmpOk)
            /\ (~e.tmpOk => e.extract = "ExitSuccess")
            /\ (e.extract # "ExitSuccess" => e.copyOk)
            /\ (~e.copyOk => e.delOk)
            /\ (~(e.collect = "Some" /\ e.tmpOk /\ e.extract = "ExitSuccess"
                  /\ e.copyOk /\ e.delOk) => e.pack = "SpawnFailed")
            /\ (e.pack = "SpawnFailed" => ~e.wrote_file)
            /\ (e.pack # "ExitSuccess" => e.rmOk)}

-----------------------------------------------------------------------------
(* Files and directories the archive manager works on.  A directory or an  *)
(* archive is described by whether it exists and, per relative path, which *)
(* version of a file it holds: "old" (packed in the archive before the     *)
(* operation), "new" (produced for this operation), "junk" (left in a      *)
(* temporary directory by an earlier operation) or "none".                 *)

\* number of relative paths that are modelled
NumPaths == 2

Paths == 1..NumPaths

NoFiles == [p \in Paths |-> "none"]

NoDir == [exists |-> FALSE, files |-> NoFiles]

EmptyDir == [exists |-> TRUE, files |-> NoFiles]

\* the directories (or archives) that hold files of version v only
DirsOf(v) == {[exists |-> TRUE, files |-> f] : f \in [Paths -> {"none", v}]}

HasFiles(dir) == \E p \in Paths : dir.files[p] # "none"

\* variant of Overlay in which a file that is already in dst is kept
Overlay_keep(dst, src) == [p \in Paths |-> IF dst[p] # "none" THEN dst[p] ELSE src[p]]

\* fs::copy / unpacking of `src` over `dst`: a file of src replaces the
\* file of dst at the same relative path
Overlay(dst, src) == [p \in Paths |-> IF src[p] # "none" THEN src[p] ELSE dst[p]]

\* the files of `src` at the paths in P
Restrict(src, P) == [p \in Paths |-> IF p \in P THEN src[p] ELSE "none"]

\* a destination directory that does not exist
NoTemp == [exists |-> FALSE, base |-> "", files |-> NoFiles]

\* no collect in progress
Mo2Idle ==
    /\ m_subpath = ""
    /\ m_search_path = "missing"
    /\ m_entries = NoFiles
    /\ m_traversal = {}
    /\ m_temp_dir = NoTemp
    /\ m_pc = "idle"
    /\ m_i = 0
    /\ m_file_count = 0
    /\ m_result = ""

\* no archive operation in progress
ArchIdle ==
    /\ a_tool = "Archive2"
    /\ a_op = "none"
    /\ a_mo2 = FALSE
    /\ a_xbox = FALSE
    /\ a_pc = "idle"
    /\ a_src = "data"
    /\ a_archive = NoDir
    /\ a_data = NoDir
    /\ a_collect = NoDir
    /\ a_scratch = NoDir
    /\ a_staging = NoDir
    /\ a_closure = ""
    /\ a_calls = <<>>
    /\ a_trace = <<>>
    /\ a_result = ""

-----------------------------------------------------------------------------
(* No runner operation in progress and nothing left behind by one.         *)
ToolIdle ==
    /\ t_op = "none"
    /\ t_pc = "idle"
    /\ t_runs = 0
    /\ log_file = TRUE
    /\ ck_log = NoLog
    /\ xe_log = NoLog
    /\ plugins_txt = FALSE
    /\ dlls = [d \in INTERFERING_DLLS |-> "absent"]
    /\ disabled_dlls = <<>>
    /\ guard = FALSE
    /\ proc = "none"
    /\ status = 0
    /\ polls = 0
    /\ t_result = ""
    /\ warnings = {}

-----------------------------------------------------------------------------
(* workflow.rs:101-152  run_from_step *)

\* variant of ShouldSkip that also passes over the last step outside
\* clean mode
ShouldSkip_last(step) ==
    (is_clean_mode_only(step) \/ step = "AddPrevisToArchive") /\ build_mode # "Clean"

(* workflow.rs:130: the clean-mode-only skip rule *)
ShouldSkip(step) == is_clean_mode_only(step) /\ build_mode # "Clean"

\* variant: the loop goes on to the next step whatever the step returned
AfterStep_continue(step, ok) == [pc |-> "loop", current_step |-> next(step)]

(* workflow.rs:144-147: `self.execute_step(step)?` followed by             *)
(* `current_step = step.next()`: where the loop goes after the step.       *)
AfterStep(step, ok) ==
    IF ok THEN [pc |-> "loop", current_step |-> next(step)]
    ELSE [pc |-> "failed", current_step |-> step]

Init ==
    /\ build_mode \in BuildMode
    /\ interactive \in BOOLEAN
    /\ archive_tool \in ArchiveTool
    /\ start_step \in WorkflowStep
    /\ pc = "start"
    /\ current_step = None
    /\ precombined_dir \in DirStates
    /\ vis_dir \in DirStates
    /\ psg_file \in BOOLEAN
    /\ previs_esp \in BOOLEAN
    /\ archive_file \in BOOLEAN
    /\ invoked = <<>>
    /\ skipped = <<>>
    /\ launches = <<>>
    /\ prompts = <<>>
    /\ error = ""
    /\ summary = FALSE
    /\ step_warnings = {}
    /\ ToolIdle
    /\ ArchIdle
    /\ Mo2Idle

(* workflow.rs:102-126: check_xprevis_patches (only from step 1 and only   *)
(* interactively) may refuse to start; then current_step = Some(start).    *)
Begin ==
    /\ pc = "start"
    /\ \E xprevis \in {"continue", "bail"} :
         IF start_step = "GeneratePrecombined" /\ interactive /\ xprevis = "bail"
         THEN /\ pc' = "failed"
              /\ error' = "XPrevisPatchDetected"
              /\ UNCHANGED current_step
         ELSE /\ pc' = "loop"
              /\ current_step' = start_step
              /\ UNCHANGED error
    /\ UNCHANGED <<build_mode, interactive, archive_tool, start_step,
                   precombined_dir, vis_dir, psg_file, previs_esp, archive_file,
                   invoked, skipped, launches, prompts, summary, step_warnings>>
    /\ UNCHANGED <<toolVars, archVars, mo2Vars>>

(* workflow.rs:130-138 *)
SkipStep ==
    /\ pc = "loop"
    /\ current_step # None
    /\ ShouldSkip(current_step)
    /\ skipped' = Append(skipped, current_step)
    /\ current_step' = next(current_step)
    /\ UNCHANGED <<build_mode, interactive, archive_tool, start_step, pc,
                   precombined_dir, vis_dir, psg_file, previs_esp, archive_file,
                   invoked, launches, prompts, error, summary, step_warnings>>
    /\ UNCHANGED <<toolVars, archVars, mo2Vars>>

(* workflow.rs:140-147: one iteration that executes `step` *)
RunStep(step, Env) ==
    /\ pc = "loop"
    /\ current_step = step
    /\ ~ShouldSkip(step)
    /\ \E r \in {execute_step(step, e) : e \in Env} :
         LET a == AfterStep(step, r.ok)
         IN /\ invoked' = Append(invoked, step)
            /\ precombined_dir' = r.precombined_dir
            /\ vis_dir' = r.vis_dir
            /\ psg_file' = r.psg_file
            /\ previs_esp' = r.previs_esp
            /\ archive_file' = r.archive_file
            /\ launches' = launches \o
                 [i \in 1..Len(r.launched) |-> [step |-> step, tool |-> r.launched[i]]]
            /\ prompts' = prompts \o
                 [i \in 1..Len(r.asked) |->
                     [step |-> step, dir |-> r.asked[i].dir, answer |-> r.asked[i].answer]]
            /\ pc' = a.pc
            /\ current_step' = a.current_step
            /\ error' = r.err
            /\ step_warnings' = step_warnings \cup r.warned
    /\ UNCHANGED <<build_mode, interactive, archive_tool, start_step,
                   skipped, summary>>
    /\ UNCHANGED <<toolVars, archVars, mo2Vars>>

Step1 == RunStep("GeneratePrecombined", Env1)

Step2 == RunStep("MergeCombinedObjects", Env2)

Step3 == RunStep("CreatePrecombinedArchive", Env3)

Step4 == RunStep("CompressPSG", Env4)

Step5 == RunStep("BuildCDX", Env5)

Step6 == RunStep("GeneratePrevis", Env6)

Step7 == RunStep("MergePrevis", Env7)

Step8 == RunStep("AddPrevisToArchive", Env8)

(* workflow.rs:150-151 and 731-759: the loop ended with current_step =     *)
(* None; print_summary, which interactively may delete the working files   *)
(* (Previs.esp among them), then Ok(()).                                   *)
Finish ==
    /\ pc = "loop"
    /\ current_step = None
    /\ summary' = TRUE
    /\ pc' = "done"
    /\ \E cleanup \in BOOLEAN :
         previs_esp' = IF interactive /\ cleanup THEN FALSE ELSE previs_esp
    /\ UNCHANGED <<build_mode, interactive, archive_tool, start_step, current_step,
                   precombined_dir, vis_dir, psg_file, archive_file,
                   invoked, skipped, launches, prompts, error, step_warnings>>
    /\ UNCHANGED <<toolVars, archVars, mo2Vars>>

Next ==
    \/ Begin
    \/ SkipStep
    \/ Step1
    \/ Step2
    \/ Step3
    \/ Step4
    \/ Step5
    \/ Step6
    \/ Step7
    \/ Step8
    \/ Finish

Spec == Init /\ [][Next]_vars

(* A step of the thread that executes run_from_step, seen from its control *)
(* state alone: the position in run_from_step and the step variable of the *)
(* loop (workflow.rs:126-152) before the call has returned, and after.     *)
RunControl ==
    /\ pc \in {"start", "loop"}
    /\ pc' \in {"loop", "done", "failed"}
    /\ current_step' \in WorkflowStep \cup {None}

(* The thread that executes run_from_step keeps running and every step     *)
(* procedure returns: while the call has not returned, its control state   *)
(* changes again.  Every step of Next changes the control state and Next   *)
(* can be taken as long as the call has not returned (both are part of     *)
(* RunTerminates), so this is weak fairness of Next.                       *)
LiveSpec == Spec /\ WF_<<pc, current_step>>(RunControl)

-----------------------------------------------------------------------------
(* The tool runners, statement by statement.                               *)

\* max_iterations of wait_for_log_file (timeout_secs / POLL_INTERVAL_SECS)
MaxPolls == 2

ExitCodes == {0, 1}

CkOps == {"generate_precombined", "compress_psg", "build_cdx", "generate_previs"}

XeOps == {"merge_combined_objects", "merge_previs"}

\* run_from_step has not been called
NoRun ==
    /\ interactive = FALSE
    /\ start_step = "GeneratePrecombined"
    /\ pc = "idle"
    /\ current_step = None
    /\ precombined_dir = "missing"
    /\ vis_dir = "missing"
    /\ psg_file = FALSE
    /\ previs_esp = FALSE
    /\ archive_file = FALSE
    /\ invoked = <<>>
    /\ skipped = <<>>
    /\ launches = <<>>
    /\ prompts = <<>>
    /\ error = ""
    /\ summary = FALSE
    /\ step_warnings = {}

\* the workflow is not running
WorkflowIdle ==
    /\ build_mode = "Clean"
    /\ archive_tool = "Archive2"
    /\ NoRun

ToolInit ==
    /\ WorkflowIdle
    /\ ArchIdle
    /\ Mo2Idle
    /\ t_op = "none"
    /\ t_pc = "idle"
    /\ t_runs = 0
    /\ log_file = TRUE
    /\ ck_log \in StaleLogs(CkPhrases)
    /\ xe_log \in StaleLogs(XePhrases)
    /\ plugins_txt \in BOOLEAN
    /\ dlls \in [INTERFERING_DLLS -> {"absent", "present"}]
    /\ disabled_dlls = <<>>
    /\ guard = FALSE
    /\ proc = "none"
    /\ status = 0
    /\ polls = 0
    /\ t_result = ""
    /\ warnings = {}

(* A caller builds a runner and calls one of its operations:               *)
(* creation_kit.rs:314-351, 414-418 and fo4edit.rs:333-353.                *)
(* DllManager::new starts with an empty vector (dll_manager.rs:129-134).   *)
Call ==
    /\ t_pc = "idle"
    /\ \E op \in CkOps \cup XeOps, cfg \in BOOLEAN :
         /\ (op \in XeOps => cfg)
         /\ t_op' = op
         /\ log_file' = cfg
         /\ t_pc' = IF op \in CkOps THEN "ck_delete_log" ELSE "xe_write_plugins"
    /\ t_runs' = t_runs + 1
    /\ disabled_dlls' = <<>>
    /\ UNCHANGED <<ck_log, xe_log, plugins_txt, dlls, guard, proc, status, polls,
                   t_result, warnings>>
    /\ UNCHANGED <<wfVars, archVars, mo2Vars>>

(* creation_kit.rs:502-519 *)
CK_DeleteLog ==
    /\ t_pc = "ck_delete_log"
    /\ IF log_file /\ ck_log.exists
       THEN \E ok \in BOOLEAN :
              IF ok THEN /\ ck_log' = RemoveLog(ck_log)
                         /\ t_pc' = "ck_guard"
                         /\ UNCHANGED t_result
              ELSE /\ t_result' = "LogDeleteFailed"
                   /\ t_pc' = "returned"
                   /\ UNCHANGED ck_log
       ELSE /\ t_pc' = "ck_guard"
            /\ UNCHANGED <<ck_log, t_result>>
    /\ UNCHANGED <<t_op, t_runs, log_file, xe_log, plugins_txt, dlls,
                   disabled_dlls, guard, proc, status, polls, warnings>>
    /\ UNCHANGED <<wfVars, archVars, mo2Vars>>

(* creation_kit.rs:522-523 with dll_manager.rs:385-391: DllGuard::new.     *)
(* When disable_dlls fails no guard is built and `?` returns the error.    *)
CK_GuardEnter ==
    /\ t_pc = "ck_guard"
    /\ \E failAt \in 0..NumDlls :
         LET r == disable_dlls(dlls, <<>>, failAt)
         IN /\ dlls' = r.files
            /\ disabled_dlls' = r.recorded
            /\ IF r.ok THEN /\ guard' = TRUE
                            /\ t_pc' = "ck_launch"
                            /\ UNCHANGED t_result
               ELSE /\ guard' = FALSE
                    /\ t_result' = "DllRenameFailed"
                    /\ t_pc' = "returned"
    /\ UNCHANGED <<t_op, t_runs, log_file, ck_log, xe_log, plugins_txt,
                   proc, status, polls, warnings>>
    /\ UNCHANGED <<wfVars, archVars, mo2Vars>>

(* creation_kit.rs:528-551: Command::status() spawns the process (directly *)
(* or through MO2) and blocks; a spawn error leaves through `?`.           *)
CK_Launch ==
    /\ t_pc = "ck_launch"
    /\ \E spawned \in BOOLEAN :
         IF spawned THEN /\ proc' = "running"
                         /\ t_pc' = "ck_wait"
                         /\ UNCHANGED t_result
         ELSE /\ t_result' = "LaunchFailed"
              /\ t_pc' = "ck_release"
              /\ UNCHANGED proc
    /\ UNCHANGED <<t_op, t_runs, log_file, ck_log, xe_log, plugins_txt, dlls,
                   disabled_dlls, guard, status, polls, warnings>>
    /\ UNCHANGED <<wfVars, archVars, mo2Vars>>

(* The Creation Kit process runs to its end: it may write its log, and     *)
(* exits with some code; status() returns.                                 *)
CK_ProcessExit ==
    /\ t_pc = "ck_wait"
    /\ proc = "running"
    /\ \E code \in ExitCodes, wrote \in BOOLEAN, text \in SUBSET CkPhrases :
         /\ (~wrote => text = {})
         /\ status' = code
         /\ ck_log' = IF wrote THEN WriteLog(ck_log, text) ELSE ck_log
    /\ proc' = "exited"
    /\ t_pc' = "ck_check_log"
    /\ UNCHANGED <<t_op, t_runs, log_file, xe_log, plugins_txt, dlls,
                   disabled_dlls, guard, polls, t_result, warnings>>
    /\ UNCHANGED <<wfVars, archVars, mo2Vars>>

(* creation_kit.rs:553-566 *)
CK_CheckLog ==
    /\ t_pc = "ck_check_log"
    /\ \E readOk \in BOOLEAN :
         LET r == ck_after_exit(log_file, ck_log, readOk, status)
         IN /\ t_result' = r.res
            /\ warnings' = warnings \cup r.warn
    /\ t_pc' = "ck_release"
    /\ UNCHANGED <<t_op, t_runs, log_file, ck_log, xe_log, plugins_txt, dlls,
                   disabled_dlls, guard, proc, status, polls>>
    /\ UNCHANGED <<wfVars, archVars, mo2Vars>>

\* variant of CK_GuardRelease in which a failed restore becomes the result
\* of the operation
CK_GuardRelease_propagate ==
    /\ t_pc = "ck_release"
    /\ guard
    /\ \E failAt \in 0..NumDlls :
         LET r == restore_dlls(dlls, disabled_dlls, failAt)
             res == IF r.ok THEN t_result ELSE "RestoreFailed"
         IN /\ dlls' = r.files
            /\ disabled_dlls' = r.recorded
            /\ warnings' = warnings
                 \cup (IF r.missing = {} THEN {} ELSE {"DisabledDllMissing"})
            /\ t_result' = res
            /\ t_pc' = IF t_op = "generate_previs" /\ res = "Ok"
                       THEN "ck_previs_check" ELSE "returned"
    /\ guard' = FALSE
    /\ UNCHANGED <<t_op, t_runs, log_file, ck_log, xe_log, plugins_txt,
                   proc, status, polls>>
    /\ UNCHANGED <<wfVars, archVars, mo2Vars>>

(* dll_manager.rs:394-406: `_guard` goes out of scope when                 *)
(* run_with_dll_guard returns, with Ok or through `?`.                     *)
CK_GuardRelease ==
    /\ t_pc = "ck_release"
    /\ guard
    /\ \E failAt \in 0..NumDlls :
         LET r == restore_dlls(dlls, disabled_dlls, failAt)
         IN /\ dlls' = r.files
            /\ disabled_dlls' = r.recorded
            /\ warnings' = warnings
                 \cup (IF r.ok THEN {} ELSE {"RestoreFailed"})
                 \cup (IF r.missing = {} THEN {} ELSE {"DisabledDllMissing"})
    /\ guard' = FALSE
    /\ t_pc' = IF t_op = "generate_previs" /\ t_result = "Ok"
               THEN "ck_previs_check" ELSE "returned"
    /\ UNCHANGED <<t_op, t_runs, log_file, ck_log, xe_log, plugins_txt,
                   proc, status, polls, t_result>>
    /\ UNCHANGED <<wfVars, archVars, mo2Vars>>

(* dll_manager.rs:303-308: while the process runs somebody else may        *)
(* remove a file that the guard renamed ("may have been deleted manually").*)
CK_DllRemoved ==
    /\ t_pc = "ck_wait"
    /\ guard
    /\ \E d \in INTERFERING_DLLS :
         /\ dlls[d] = "disabled"
         /\ dlls' = [dlls EXCEPT ![d] = "absent"]
    /\ UNCHANGED <<t_op, t_pc, t_runs, log_file, ck_log, xe_log, plugins_txt,
                   disabled_dlls, guard, proc, status, polls, t_result, warnings>>
    /\ UNCHANGED <<wfVars, archVars, mo2Vars>>

(* creation_kit.rs:420-436 *)
CK_PrevisCheck ==
    /\ t_pc = "ck_previs_check"
    /\ \E readOk \in BOOLEAN :
         t_result' = ck_previs_check(log_file, ck_log, readOk)
    /\ t_pc' = "returned"
    /\ UNCHANGED <<t_op, t_runs, log_file, ck_log, xe_log, plugins_txt, dlls,
                   disabled_dlls, guard, proc, status, polls, warnings>>
    /\ UNCHANGED <<wfVars, archVars, mo2Vars>>

(* fo4edit.rs:479-481: fs::write of the temporary Plugins.txt *)
XE_WritePlugins ==
    /\ t_pc = "xe_write_plugins"
    /\ \E ok \in BOOLEAN :
         IF ok THEN /\ plugins_txt' = TRUE
                    /\ t_pc' = "xe_delete_log"
                    /\ UNCHANGED t_result
         ELSE /\ t_result' = "PluginsWriteFailed"
              /\ t_pc' = "returned"
              /\ UNCHANGED plugins_txt
    /\ UNCHANGED <<t_op, t_runs, log_file, ck_log, xe_log, dlls,
                   disabled_dlls, guard, proc, status, polls, warnings>>
    /\ UNCHANGED <<wfVars, archVars, mo2Vars>>

(* fo4edit.rs:483-486 *)
XE_DeleteLog ==
    /\ t_pc = "xe_delete_log"
    /\ IF xe_log.exists
       THEN \E ok \in BOOLEAN :
              IF ok THEN /\ xe_log' = RemoveLog(xe_log)
                         /\ t_pc' = "xe_launch"
                         /\ UNCHANGED t_result
              ELSE /\ t_result' = "LogDeleteFailed"
                   /\ t_pc' = "returned"
                   /\ UNCHANGED xe_log
       ELSE /\ t_pc' = "xe_launch"
            /\ UNCHANGED <<xe_log, t_result>>
    /\ UNCHANGED <<t_op, t_runs, log_file, ck_log, plugins_txt, dlls,
                   disabled_dlls, guard, proc, status, polls, warnings>>
    /\ UNCHANGED <<wfVars, archVars, mo2Vars>>

(* fo4edit.rs:504-528: Command::spawn(), directly or through MO2 *)
XE_Launch ==
    /\ t_pc = "xe_launch"
    /\ \E spawned \in BOOLEAN :
         IF spawned THEN /\ proc' = "running"
                         /\ t_pc' = "xe_send_enter"
                         /\ UNCHANGED t_result
         ELSE /\ t_result' = "LaunchFailed"
              /\ t_pc' = "returned"
              /\ UNCHANGED proc
    /\ UNCHANGED <<t_op, t_runs, log_file, ck_log, xe_log, plugins_txt, dlls,
                   disabled_dlls, guard, status, polls, warnings>>
    /\ UNCHANGED <<wfVars, archVars, mo2Vars>>

(* fo4edit.rs:532 with 648-726 (the Windows build): the keystroke is sent  *)
(* or, when the window is not found, a warning is recorded; Ok either way. *)
XE_SendEnter ==
    /\ t_pc = "xe_send_enter"
    /\ \E found \in BOOLEAN :
         warnings' = IF found THEN warnings ELSE warnings \cup {"WindowNotFound"}
    /\ polls' = 0
    /\ t_pc' = "xe_wait_log"
    /\ UNCHANGED <<t_op, t_runs, log_file, ck_log, xe_log, plugins_txt, dlls,
                   disabled_dlls, guard, proc, status, t_result>>
    /\ UNCHANGED <<wfVars, archVars, mo2Vars>>

(* The FO4Edit process, running beside run_script, writes to its log.      *)
XE_ProcessWrites ==
    /\ t_op \in XeOps
    /\ proc = "running"
    /\ \E text \in SUBSET XePhrases :
         xe_log' = WriteLog(xe_log, text)
    /\ UNCHANGED <<t_op, t_pc, t_runs, log_file, ck_log, plugins_txt, dlls,
                   disabled_dlls, guard, proc, status, polls, t_result, warnings>>
    /\ UNCHANGED <<wfVars, archVars, mo2Vars>>

(* The FO4Edit process exits by itself (-autoexit); run_script never      *)
(* looks at its exit status.                                               *)
XE_ProcessExits ==
    /\ t_op \in XeOps
    /\ proc = "running"
    /\ proc' = "exited"
    /\ UNCHANGED <<t_op, t_pc, t_runs, log_file, ck_log, xe_log, plugins_txt, dlls,
                   disabled_dlls, guard, status, polls, t_result, warnings>>
    /\ UNCHANGED <<wfVars, archVars, mo2Vars>>

\* variant of XE_PollLog that does not count its iterations
XE_PollLog_uncounted ==
    /\ t_pc = "xe_wait_log"
    /\ polls < MaxPolls
    /\ IF xe_log.exists
       THEN /\ t_pc' = "xe_close"
            /\ polls' = 0
       ELSE UNCHANGED <<t_pc, polls>>
    /\ UNCHANGED <<t_op, t_runs, log_file, ck_log, xe_log, plugins_txt, dlls,
                   disabled_dlls, guard, proc, status, t_result, warnings>>
    /\ UNCHANGED <<wfVars, archVars, mo2Vars>>

(* fo4edit.rs:828-834: one iteration of the poll loop *)
XE_PollLog ==
    /\ t_pc = "xe_wait_log"
    /\ polls < MaxPolls
    /\ IF xe_log.exists
       THEN /\ t_pc' = "xe_close"
            /\ polls' = 0
       ELSE /\ polls' = polls + 1
            /\ UNCHANGED t_pc
    /\ UNCHANGED <<t_op, t_runs, log_file, ck_log, xe_log, plugins_txt, dlls,
                   disabled_dlls, guard, proc, status, t_result, warnings>>
    /\ UNCHANGED <<wfVars, archVars, mo2Vars>>

(* fo4edit.rs:836-837: the loop ran out *)
XE_WaitTimeout ==
    /\ t_pc = "xe_wait_log"
    /\ polls >= MaxPolls
    /\ warnings' = warnings \cup {"LogWaitTimeout"}
    /\ polls' = 0
    /\ t_pc' = "xe_close"
    /\ UNCHANGED <<t_op, t_runs, log_file, ck_log, xe_log, plugins_txt, dlls,
                   disabled_dlls, guard, proc, status, t_result>>
    /\ UNCHANGED <<wfVars, archVars, mo2Vars>>

\* variant of XE_Close that goes on to the log without closing the window
\* or waiting for the child
XE_Close_no_wait ==
    /\ t_pc = "xe_close"
    /\ t_pc' = "xe_check_log"
    /\ UNCHANGED <<t_op, t_runs, log_file, ck_log, xe_log, plugins_txt, dlls,
                   disabled_dlls, guard, proc, status, polls, t_result, warnings>>
    /\ UNCHANGED <<wfVars, archVars, mo2Vars>>

(* fo4edit.rs:537-547: sleep, close_fo4edit_window (WM_CLOSE, taskkill),   *)
(* child.wait(): the process is gone when this is over.                    *)
XE_Close ==
    /\ t_pc = "xe_close"
    /\ proc' = "exited"
    /\ t_pc' = "xe_check_log"
    /\ UNCHANGED <<t_op, t_runs, log_file, ck_log, xe_log, plugins_txt, dlls,
                   disabled_dlls, guard, status, polls, t_result, warnings>>
    /\ UNCHANGED <<wfVars, archVars, mo2Vars>>

\* variant of XE_CheckLog that fails when the success message is missing
XE_CheckLog_require_success ==
    /\ t_pc = "xe_check_log"
    /\ \E readOk \in BOOLEAN :
         LET r == xe_check_log_for_errors(xe_log, readOk)
         IN /\ UNCHANGED warnings
            /\ IF r.res = "Ok" /\ r.warn = {}
               THEN /\ t_pc' = "xe_cleanup"
                    /\ UNCHANGED t_result
               ELSE /\ t_result' = IF r.res = "Ok" THEN "NoSuccessMessage" ELSE r.res
                    /\ t_pc' = "returned"
    /\ UNCHANGED <<t_op, t_runs, log_file, ck_log, xe_log, plugins_txt, dlls,
                   disabled_dlls, guard, proc, status, polls>>
    /\ UNCHANGED <<wfVars, archVars, mo2Vars>>

(* fo4edit.rs:549-550 *)
XE_CheckLog ==
    /\ t_pc = "xe_check_log"
    /\ \E readOk \in BOOLEAN :
         LET r == xe_check_log_for_errors(xe_log, readOk)
         IN /\ warnings' = warnings \cup r.warn
            /\ IF r.res = "Ok" THEN /\ t_pc' = "xe_cleanup"
                                    /\ UNCHANGED t_result
               ELSE /\ t_result' = r.res
                    /\ t_pc' = "returned"
    /\ UNCHANGED <<t_op, t_runs, log_file, ck_log, xe_log, plugins_txt, dlls,
                   disabled_dlls, guard, proc, status, polls>>
    /\ UNCHANGED <<wfVars, archVars, mo2Vars>>

(* fo4edit.rs:552-556: `let _ = fs::remove_file(&plugins_file)`, Ok(())    *)
XE_Cleanup ==
    /\ t_pc = "xe_cleanup"
    /\ \E ok \in BOOLEAN :
         plugins_txt' = IF ok THEN FALSE ELSE plugins_txt
    /\ t_result' = "Ok"
    /\ t_pc' = "returned"
    /\ UNCHANGED <<t_op, t_runs, log_file, ck_log, xe_log, dlls,
                   disabled_dlls, guard, proc, status, polls, warnings>>
    /\ UNCHANGED <<wfVars, archVars, mo2Vars>>

ToolNext ==
    \/ Call
    \/ CK_DeleteLog
    \/ CK_GuardEnter
    \/ CK_Launch
    \/ CK_DllRemoved
    \/ CK_ProcessExit
    \/ CK_CheckLog
    \/ CK_GuardRelease
    \/ CK_PrevisCheck
    \/ XE_WritePlugins
    \/ XE_DeleteLog
    \/ XE_Launch
    \/ XE_SendEnter
    \/ XE_ProcessWrites
    \/ XE_ProcessExits
    \/ XE_PollLog
    \/ XE_WaitTimeout
    \/ XE_Close
    \/ XE_CheckLog
    \/ XE_Cleanup

ToolSpec == ToolInit /\ [][ToolNext]_vars

(* The thread that executes run_script keeps running: thread::sleep        *)
(* returns (fo4edit.rs:833, 538) and close_fo4edit_window / child.wait()   *)
(* come back (fo4edit.rs:541-547).  Nothing is assumed of the FO4Edit      *)
(* process.                                                                *)
ToolLiveSpec ==
    /\ ToolSpec
    /\ WF_vars(XE_PollLog)
    /\ WF_vars(XE_WaitTimeout)
    /\ WF_vars(XE_Close)

-----------------------------------------------------------------------------
(* DllManager used by itself, as tests::test_disable_and_restore_dlls does *)
(* (dll_manager.rs:432-453): disable_dlls, then restore_dlls, on a game    *)
(* directory in any state, with a file outside the list beside the         *)
(* candidates.                                                             *)

DllInit ==
    /\ WorkflowIdle
    /\ ArchIdle
    /\ Mo2Idle
    /\ t_op = "none"
    /\ t_pc = "idle"
    /\ t_runs = 0
    /\ log_file = TRUE
    /\ ck_log = NoLog
    /\ xe_log = NoLog
    /\ plugins_txt = FALSE
    /\ dlls \in [GameFiles -> DllStates]
    /\ disabled_dlls = <<>>
    /\ guard = FALSE
    /\ proc = "none"
    /\ status = 0
    /\ polls = 0
    /\ t_result = ""
    /\ warnings = {}

(* dll_manager.rs:193-231 on a manager fresh from DllManager::new *)
D_Disable ==
    /\ t_pc = "idle"
    /\ \E failAt \in 0..NumDlls :
         LET r == disable_dlls(dlls, disabled_dlls, failAt)
         IN /\ dlls' = r.files
            /\ disabled_dlls' = r.recorded
            /\ t_result' = IF r.ok THEN "Ok" ELSE "DllRenameFailed"
            /\ t_pc' = IF r.ok THEN "dll_disabled" ELSE "dll_disable_failed"
    /\ t_op' = "disable_dlls"
    /\ UNCHANGED <<t_runs, log_file, ck_log, xe_log, plugins_txt, guard, proc,
                   status, polls, warnings>>
    /\ UNCHANGED <<wfVars, archVars, mo2Vars>>

(* dll_manager.rs:279-320 after disable_dlls returned Ok *)
D_Restore ==
    /\ t_pc = "dll_disabled"
    /\ \E failAt \in 0..NumDlls :
         LET r == restore_dlls(dlls, disabled_dlls, failAt)
         IN /\ dlls' = r.files
            /\ disabled_dlls' = r.recorded
            /\ warnings' = warnings
                 \cup (IF r.missing = {} THEN {} ELSE {"DisabledDllMissing"})
            /\ t_result' = IF r.ok THEN "Ok" ELSE "DllRestoreFailed"
            /\ t_pc' = IF r.ok THEN "dll_restored" ELSE "dll_restore_failed"
    /\ t_op' = "restore_dlls"
    /\ UNCHANGED <<t_runs, log_file, ck_log, xe_log, plugins_txt, guard, proc,
                   status, polls>>
    /\ UNCHANGED <<wfVars, archVars, mo2Vars>>

DllNext ==
    \/ D_Disable
    \/ D_Restore

DllSpec == DllInit /\ [][DllNext]_vars

-----------------------------------------------------------------------------
(* The archive manager, statement by statement (archive.rs), with the MO2  *)
(* collector summarised by its return paths (mo2_helper.rs).               *)

ArchOps == {"create_archive", "add_to_archive",
            "create_archive_from_precombines", "add_previs_to_archive"}

\* source_dir of create_archive / add_to_archive
Src == IF a_src = "collect" THEN a_collect ELSE a_data

\* source_dir becomes d, the other directory is left alone
SetSrc(d) ==
    IF a_src = "collect"
    THEN a_collect' = d /\ UNCHANGED a_data
    ELSE a_data' = d /\ UNCHANGED a_collect

\* the operation returns res
Return(res) == a_pc' = "returned" /\ a_result' = res

\* create_archive / add_to_archive returned Ok(()): a wrapper called with
\* an MO2 directory goes on to its cleanup, otherwise Ok(()) is returned
Archived ==
    IF a_mo2 THEN a_pc' = "wrap_cleanup" /\ UNCHANGED a_result
    ELSE Return("Ok")

\* what a tool run that did not succeed makes its caller return
ToolError(out) == IF out = "SpawnFailed" THEN "ArchiveToolNotRun" ELSE "ArchiveToolFailed"

\* variant of Invoked in which every run of either tool gets the option
Invoked_xbox_always(out, verb) ==
    IF out = "SpawnFailed" THEN a_calls
    ELSE Append(a_calls, [tool |-> a_tool, verb |-> verb, xbox |-> a_xbox])

\* one more run of the tool, unless it could not be started; the Xbox
\* compression option is pushed by archive2_create only (archive.rs:799-801,
\* 850-854, 902-909)
Invoked(out, verb) ==
    IF out = "SpawnFailed" THEN a_calls
    ELSE Append(a_calls, [tool |-> a_tool, verb |-> verb,
                          xbox |-> (a_tool = "Archive2" /\ verb = "pack" /\ a_xbox)])

\* the archive written from directory `dir`: Archive2 -c writes a new
\* archive, BSArch pack adds to the archive that is there
Packed(dir) ==
    [exists |-> TRUE,
     files  |-> IF a_tool = "BSArch" THEN Overlay(a_archive.files, dir.files)
                ELSE dir.files]

ArchInit ==
    /\ build_mode \in BuildMode
    /\ archive_tool \in ArchiveTool
    /\ NoRun
    /\ ToolIdle
    /\ Mo2Idle
    /\ a_tool = archive_tool
    /\ a_op = "none"
    /\ a_mo2 = FALSE
    /\ a_xbox = FALSE
    /\ a_pc = "idle"
    /\ a_src = "data"
    /\ a_archive \in {NoDir} \cup DirsOf("old")
    /\ a_data \in {NoDir} \cup DirsOf("new")
    /\ a_collect \in {NoDir, [exists |-> TRUE, files |-> [p \in Paths |-> "junk"]]}
    /\ a_scratch \in {NoDir, [exists |-> TRUE, files |-> [p \in Paths |-> "junk"]]}
    /\ a_staging \in {NoDir} \cup DirsOf("new")
    /\ a_closure = ""
    /\ a_calls = <<>>
    /\ a_trace = <<>>
    /\ a_result = ""

(* workflow.rs:445 and 677: the argument is_xbox of steps 3 and 8 *)
is_xbox == build_mode = "Xbox"

(* A caller invokes one operation of ArchiveManager: archive.rs:291-299,   *)
(* 556-564, 404-411, 726-733.  Without an MO2 directory the wrappers pass  *)
(* the directory under Data (archive.rs:437-441, 759-763).  The wrappers   *)
(* are called by steps 3 and 8 of the workflow on a manager built for      *)
(* Config::archive_tool (workflow.rs:429-448, 661-680).                    *)
A_Call ==
    /\ a_pc = "idle"
    /\ \E op \in ArchOps, mo2 \in BOOLEAN, xbox \in BOOLEAN :
         /\ (mo2 => op \in {"create_archive_from_precombines", "add_previs_to_archive"})
         /\ (op \in {"create_archive_from_precombines", "add_previs_to_archive"}
               => xbox = is_xbox)
         /\ a_op' = op
         /\ a_mo2' = mo2
         /\ a_xbox' = xbox
         /\ a_pc' = IF mo2 THEN "mo2_new"
                    ELSE IF op \in {"create_archive", "create_archive_from_precombines"}
                         THEN "cr_pack" ELSE "add_check"
    /\ UNCHANGED <<a_tool, a_src, a_archive, a_data, a_collect, a_scratch, a_staging,
                   a_closure, a_calls, a_trace, a_result>>
    /\ UNCHANGED <<wfVars, toolVars, mo2Vars>>

(* mo2_helper.rs:19-30 through archive.rs:414 / 736: Mo2Helper::new        *)
A_Mo2New ==
    /\ a_pc = "mo2_new"
    /\ IF a_staging.exists
       THEN a_pc' = "mo2_collect" /\ UNCHANGED a_result
       ELSE Return("StagingMissing")
    /\ UNCHANGED <<a_tool, a_op, a_mo2, a_xbox, a_src, a_archive, a_data, a_collect,
                   a_scratch, a_staging, a_closure, a_calls, a_trace>>
    /\ UNCHANGED <<wfVars, toolVars, mo2Vars>>

(* archive.rs:420-436 / 742-758 with mo2_helper.rs:55-150: collect_* into  *)
(* Data/_temp_mo2_collect.  Ok(None) touches nothing; otherwise the old    *)
(* directory is removed (rmOk), a new one created (mkOk) and the files     *)
(* copied, the copy of the files outside `copied` failing.                 *)
A_Collect ==
    /\ a_pc = "mo2_collect"
    /\ IF ~HasFiles(a_staging)
       THEN /\ Return(IF a_op = "add_previs_to_archive"
                      THEN "NoPrevisInMo2" ELSE "NoPrecombinedInMo2")
            /\ UNCHANGED <<a_collect, a_src>>
       ELSE \E rmOk \in BOOLEAN, mkOk \in BOOLEAN, copied \in SUBSET Paths :
              IF a_collect.exists /\ ~rmOk
              THEN /\ Return("Mo2CollectFailed")
                   /\ UNCHANGED <<a_collect, a_src>>
              ELSE IF ~mkOk
              THEN /\ Return("Mo2CollectFailed")
                   /\ a_collect' = NoDir
                   /\ UNCHANGED a_src
              ELSE /\ a_collect' = [exists |-> TRUE,
                                    files  |-> Restrict(a_staging.files, copied)]
                   /\ IF copied = Paths
                      THEN /\ a_src' = "collect"
                           /\ a_pc' = IF a_op = "add_previs_to_archive"
                                      THEN "add_check" ELSE "cr_pack"
                           /\ UNCHANGED a_result
                      ELSE /\ Return("Mo2CollectFailed")
                           /\ UNCHANGED a_src
    /\ UNCHANGED <<a_tool, a_op, a_mo2, a_xbox, a_archive, a_data,
                   a_scratch, a_staging, a_closure, a_calls, a_trace>>
    /\ UNCHANGED <<wfVars, toolVars, mo2Vars>>

\* variant of A_CreatePack that goes on whatever the tool returned
A_CreatePack_unchecked ==
    /\ a_pc = "cr_pack"
    /\ \E out \in PackOutcomes, wrote \in BOOLEAN :
         /\ (out = "SpawnFailed" => ~wrote)
         /\ a_archive' = IF wrote THEN Packed(Src) ELSE a_archive
         /\ a_calls' = Invoked(out, "pack")
         /\ a_trace' = Append(a_trace, [eff |-> "pack", ok |-> (out = "ExitSuccess")])
         /\ IF a_tool = "Archive2"
            THEN a_pc' = "cr_delete_source" /\ UNCHANGED a_result
            ELSE Archived
    /\ UNCHANGED <<a_tool, a_op, a_mo2, a_xbox, a_src, a_data, a_collect,
                   a_scratch, a_staging, a_closure>>
    /\ UNCHANGED <<wfVars, toolVars, mo2Vars>>

(* archive.rs:300-315 with 785-818 (archive2_create) and 894-923           *)
(* (bsarch_pack): the pack run of create_archive.  wrote: the tool wrote   *)
(* the archive file.                                                       *)
A_CreatePack ==
    /\ a_pc = "cr_pack"
    /\ \E out \in PackOutcomes, wrote \in BOOLEAN :
         /\ (out = "SpawnFailed" => ~wrote)
         /\ a_archive' = IF wrote THEN Packed(Src) ELSE a_archive
         /\ a_calls' = Invoked(out, "pack")
         /\ a_trace' = Append(a_trace, [eff |-> "pack", ok |-> (out = "ExitSuccess")])
         /\ IF out # "ExitSuccess" THEN Return(ToolError(out))
            ELSE IF a_tool = "Archive2"
                 THEN a_pc' = "cr_delete_source" /\ UNCHANGED a_result
                 ELSE Archived
    /\ UNCHANGED <<a_tool, a_op, a_mo2, a_xbox, a_src, a_data, a_collect,
                   a_scratch, a_staging, a_closure>>
    /\ UNCHANGED <<wfVars, toolVars, mo2Vars>>

\* variant of A_CreateDeleteSource that leaves the source where it is
A_CreateDeleteSource_keep ==
    /\ a_pc = "cr_delete_source"
    /\ a_trace' = Append(a_trace, [eff |-> "delete_source", ok |-> TRUE])
    /\ Archived
    /\ UNCHANGED <<a_tool, a_op, a_mo2, a_xbox, a_src, a_archive, a_data, a_collect,
                   a_scratch, a_staging, a_closure, a_calls>>
    /\ UNCHANGED <<wfVars, toolVars, mo2Vars>>

(* archive.rs:304-309: Archive2 only, fs::remove_dir_all(source_dir)?      *)
A_CreateDeleteSource ==
    /\ a_pc = "cr_delete_source"
    /\ \E rmOk \in BOOLEAN :
         LET ok == Src.exists /\ rmOk
         IN /\ a_trace' = Append(a_trace, [eff |-> "delete_source", ok |-> ok])
            /\ IF ok THEN SetSrc(NoDir) /\ Archived
               ELSE Return("IoError") /\ UNCHANGED <<a_data, a_collect>>
    /\ UNCHANGED <<a_tool, a_op, a_mo2, a_xbox, a_src, a_archive,
                   a_scratch, a_staging, a_closure, a_calls>>
    /\ UNCHANGED <<wfVars, toolVars, mo2Vars>>

\* variant of A_AddCheck that takes the extract-and-repack path with
\* either tool
A_AddCheck_repack ==
    /\ a_pc = "add_check"
    /\ IF ~a_archive.exists THEN Return("ArchiveMissing")
       ELSE a_pc' = "add_prepare" /\ UNCHANGED a_result
    /\ UNCHANGED <<a_tool, a_op, a_mo2, a_xbox, a_src, a_archive, a_data, a_collect,
                   a_scratch, a_staging, a_closure, a_calls, a_trace>>
    /\ UNCHANGED <<wfVars, toolVars, mo2Vars>>

(* archive.rs:566-568: the archive must exist, then the tool is matched   *)
A_AddCheck ==
    /\ a_pc = "add_check"
    /\ IF ~a_archive.exists THEN Return("ArchiveMissing")
       ELSE /\ a_pc' = IF a_tool = "Archive2" THEN "add_prepare" ELSE "add_bsarch"
            /\ UNCHANGED a_result
    /\ UNCHANGED <<a_tool, a_op, a_mo2, a_xbox, a_src, a_archive, a_data, a_collect,
                   a_scratch, a_staging, a_closure, a_calls, a_trace>>
    /\ UNCHANGED <<wfVars, toolVars, mo2Vars>>

(* archive.rs:576-582: the scratch directory is removed if it is there and *)
(* created anew                                                            *)
A_AddPrepare ==
    /\ a_pc = "add_prepare"
    /\ \E rmOk \in BOOLEAN, mkOk \in BOOLEAN :
         IF a_scratch.exists /\ ~rmOk
         THEN Return("IoError") /\ UNCHANGED a_scratch
         ELSE IF ~mkOk
         THEN Return("IoError") /\ a_scratch' = NoDir
         ELSE /\ a_scratch' = EmptyDir
              /\ a_pc' = "add_extract"
              /\ UNCHANGED a_result
    /\ UNCHANGED <<a_tool, a_op, a_mo2, a_xbox, a_src, a_archive, a_data, a_collect,
                   a_staging, a_closure, a_calls, a_trace>>
    /\ UNCHANGED <<wfVars, toolVars, mo2Vars>>

\* variant of A_Extract that goes on to the copy whatever the tool returned
A_Extract_unchecked ==
    /\ a_pc = "add_extract"
    /\ \E out \in PackOutcomes, unpacked \in SUBSET Paths :
         /\ (out = "SpawnFailed" => unpacked = {})
         /\ (out = "ExitSuccess" => unpacked = Paths)
         /\ a_scratch' = [a_scratch EXCEPT
                            !.files = Overlay(@, Restrict(a_archive.files, unpacked))]
         /\ a_calls' = Invoked(out, "extract")
         /\ a_trace' = Append(a_trace, [eff |-> "extract", ok |-> (out = "ExitSuccess")])
         /\ a_pc' = "add_copy"
    /\ UNCHANGED <<a_tool, a_op, a_mo2, a_xbox, a_src, a_archive, a_data, a_collect,
                   a_staging, a_closure, a_result>>
    /\ UNCHANGED <<wfVars, toolVars, mo2Vars>>

(* archive.rs:586-587 with 839-868: archive2_extract inside the closure.   *)
(* unpacked: the files the tool wrote before it ended.                     *)
A_Extract ==
    /\ a_pc = "add_extract"
    /\ \E out \in PackOutcomes, unpacked \in SUBSET Paths :
         /\ (out = "SpawnFailed" => unpacked = {})
         /\ (out = "ExitSuccess" => unpacked = Paths)
         /\ a_scratch' = [a_scratch EXCEPT
                            !.files = Overlay(@, Restrict(a_archive.files, unpacked))]
         /\ a_calls' = Invoked(out, "extract")
         /\ a_trace' = Append(a_trace, [eff |-> "extract", ok |-> (out = "ExitSuccess")])
         /\ IF out = "ExitSuccess"
            THEN a_pc' = "add_copy" /\ UNCHANGED a_closure
            ELSE a_pc' = "add_cleanup" /\ a_closure' = ToolError(out)
    /\ UNCHANGED <<a_tool, a_op, a_mo2, a_xbox, a_src, a_archive, a_data, a_collect,
                   a_staging, a_result>>
    /\ UNCHANGED <<wfVars, toolVars, mo2Vars>>

\* variant of A_Copy that goes on to delete the archive whether or not
\* every file was copied
A_Copy_unchecked ==
    /\ a_pc = "add_copy"
    /\ \E copied \in SUBSET Paths :
         /\ (~Src.exists => copied = {})
         /\ a_scratch' = [a_scratch EXCEPT
                            !.files = Overlay(@, Restrict(Src.files, copied))]
         /\ a_trace' = Append(a_trace, [eff |-> "copy",
                                        ok |-> (Src.exists /\ copied = Paths)])
         /\ a_pc' = "add_delete_archive"
    /\ UNCHANGED <<a_tool, a_op, a_mo2, a_xbox, a_src, a_archive, a_data, a_collect,
                   a_staging, a_closure, a_calls, a_result>>
    /\ UNCHANGED <<wfVars, toolVars, mo2Vars>>

(* archive.rs:589-590 with 945-964: copy_dir_recursive(source_dir,         *)
(* scratch); read_dir fails on a missing source, a copy may fail part way. *)
A_Copy ==
    /\ a_pc = "add_copy"
    /\ \E copied \in SUBSET Paths :
         /\ (~Src.exists => copied = {})
         /\ LET ok == Src.exists /\ copied = Paths
            IN /\ a_scratch' = [a_scratch EXCEPT
                                  !.files = Overlay(@, Restrict(Src.files, copied))]
               /\ a_trace' = Append(a_trace, [eff |-> "copy", ok |-> ok])
               /\ IF ok THEN a_pc' = "add_delete_archive" /\ UNCHANGED a_closure
                  ELSE a_pc' = "add_cleanup" /\ a_closure' = "IoError"
    /\ UNCHANGED <<a_tool, a_op, a_mo2, a_xbox, a_src, a_archive, a_data, a_collect,
                   a_staging, a_calls, a_result>>
    /\ UNCHANGED <<wfVars, toolVars, mo2Vars>>

\* variant of A_DeleteArchive that leaves the archive file in place
A_DeleteArchive_keep ==
    /\ a_pc = "add_delete_archive"
    /\ a_trace' = Append(a_trace, [eff |-> "delete_archive", ok |-> TRUE])
    /\ a_pc' = "add_repack"
    /\ UNCHANGED <<a_tool, a_op, a_mo2, a_xbox, a_src, a_archive, a_data, a_collect,
                   a_scratch, a_staging, a_closure, a_calls, a_result>>
    /\ UNCHANGED <<wfVars, toolVars, mo2Vars>>

(* archive.rs:592-593: fs::remove_file(&archive_path)? *)
A_DeleteArchive ==
    /\ a_pc = "add_delete_archive"
    /\ \E rmOk \in BOOLEAN :
         /\ a_trace' = Append(a_trace, [eff |-> "delete_archive", ok |-> rmOk])
         /\ IF rmOk
            THEN /\ a_archive' = NoDir
                 /\ a_pc' = "add_repack"
                 /\ UNCHANGED a_closure
            ELSE /\ a_pc' = "add_cleanup"
                 /\ a_closure' = "IoError"
                 /\ UNCHANGED a_archive
    /\ UNCHANGED <<a_tool, a_op, a_mo2, a_xbox, a_src, a_data, a_collect,
                   a_scratch, a_staging, a_calls, a_result>>
    /\ UNCHANGED <<wfVars, toolVars, mo2Vars>>

(* archive.rs:595-599: archive2_create from the scratch directory, end of  *)
(* the closure                                                             *)
A_Repack ==
    /\ a_pc = "add_repack"
    /\ \E out \in PackOutcomes, wrote \in BOOLEAN :
         /\ (out = "SpawnFailed" => ~wrote)
         /\ a_archive' = IF wrote THEN Packed(a_scratch) ELSE a_archive
         /\ a_calls' = Invoked(out, "pack")
         /\ a_trace' = Append(a_trace, [eff |-> "pack", ok |-> (out = "ExitSuccess")])
         /\ a_closure' = IF out = "ExitSuccess" THEN "" ELSE ToolError(out)
    /\ a_pc' = "add_cleanup"
    /\ UNCHANGED <<a_tool, a_op, a_mo2, a_xbox, a_src, a_data, a_collect,
                   a_scratch, a_staging, a_result>>
    /\ UNCHANGED <<wfVars, toolVars, mo2Vars>>

\* variant of A_Cleanup that returns the error of the closure at once and
\* removes the scratch directory only after a successful closure
A_Cleanup_on_success ==
    /\ a_pc = "add_cleanup"
    /\ IF a_closure # ""
       THEN Return(a_closure) /\ UNCHANGED <<a_scratch, a_trace>>
       ELSE /\ a_pc' = "add_delete_source"
            /\ UNCHANGED a_result
            /\ \E rmOk \in BOOLEAN :
                 /\ a_scratch' = IF rmOk THEN NoDir ELSE a_scratch
                 /\ a_trace' = Append(a_trace, [eff |-> "delete_scratch", ok |-> rmOk])
    /\ UNCHANGED <<a_tool, a_op, a_mo2, a_xbox, a_src, a_archive, a_data, a_collect,
                   a_staging, a_closure, a_calls>>
    /\ UNCHANGED <<wfVars, toolVars, mo2Vars>>

(* archive.rs:601-607: `let _ = fs::remove_dir_all(&temp_extract)` whatever *)
(* the closure returned, then `result?`                                    *)
A_Cleanup ==
    /\ a_pc = "add_cleanup"
    /\ IF a_scratch.exists
       THEN \E rmOk \in BOOLEAN :
              /\ a_scratch' = IF rmOk THEN NoDir ELSE a_scratch
              /\ a_trace' = Append(a_trace, [eff |-> "delete_scratch", ok |-> rmOk])
       ELSE UNCHANGED <<a_scratch, a_trace>>
    /\ IF a_closure # "" THEN Return(a_closure)
       ELSE a_pc' = "add_delete_source" /\ UNCHANGED a_result
    /\ UNCHANGED <<a_tool, a_op, a_mo2, a_xbox, a_src, a_archive, a_data, a_collect,
                   a_staging, a_closure, a_calls>>
    /\ UNCHANGED <<wfVars, toolVars, mo2Vars>>

(* archive.rs:609-610: fs::remove_dir_all(source_dir)? *)
A_AddDeleteSource ==
    /\ a_pc = "add_delete_source"
    /\ \E rmOk \in BOOLEAN :
         LET ok == Src.exists /\ rmOk
         IN /\ a_trace' = Append(a_trace, [eff |-> "delete_source", ok |-> ok])
            /\ IF ok THEN SetSrc(NoDir) /\ Archived
               ELSE Return("IoError") /\ UNCHANGED <<a_data, a_collect>>
    /\ UNCHANGED <<a_tool, a_op, a_mo2, a_xbox, a_src, a_archive,
                   a_scratch, a_staging, a_closure, a_calls>>
    /\ UNCHANGED <<wfVars, toolVars, mo2Vars>>

(* archive.rs:612-615 with 894-923: bsarch_pack(source_dir, archive_path)? *)
A_BsarchPack ==
    /\ a_pc = "add_bsarch"
    /\ \E out \in PackOutcomes, wrote \in BOOLEAN :
         /\ (out = "SpawnFailed" => ~wrote)
         /\ a_archive' = IF wrote THEN Packed(Src) ELSE a_archive
         /\ a_calls' = Invoked(out, "pack")
         /\ a_trace' = Append(a_trace, [eff |-> "pack", ok |-> (out = "ExitSuccess")])
         /\ IF out = "ExitSuccess" THEN Archived ELSE Return(ToolError(out))
    /\ UNCHANGED <<a_tool, a_op, a_mo2, a_xbox, a_src, a_data, a_collect,
                   a_scratch, a_staging, a_closure>>
    /\ UNCHANGED <<wfVars, toolVars, mo2Vars>>

(* archive.rs:428-431 / 750-753: after the inner operation returned Ok,    *)
(* the collect directory is removed if it is still there                   *)
A_WrapCleanup ==
    /\ a_pc = "wrap_cleanup"
    /\ IF a_collect.exists
       THEN \E rmOk \in BOOLEAN :
              IF rmOk THEN a_collect' = NoDir /\ Return("Ok")
              ELSE UNCHANGED a_collect /\ Return("IoError")
       ELSE UNCHANGED a_collect /\ Return("Ok")
    /\ UNCHANGED <<a_tool, a_op, a_mo2, a_xbox, a_src, a_archive, a_data,
                   a_scratch, a_staging, a_closure, a_calls, a_trace>>
    /\ UNCHANGED <<wfVars, toolVars, mo2Vars>>

ArchNext ==
    \/ A_Call
    \/ A_Mo2New
    \/ A_Collect
    \/ A_CreatePack
    \/ A_CreateDeleteSource
    \/ A_AddCheck
    \/ A_AddPrepare
    \/ A_Extract
    \/ A_Copy
    \/ A_DeleteArchive
    \/ A_Repack
    \/ A_Cleanup
    \/ A_AddDeleteSource
    \/ A_BsarchPack
    \/ A_WrapCleanup

ArchSpec == ArchInit /\ [][ArchNext]_vars

-----------------------------------------------------------------------------
(* Mo2Helper::collect_files_from_subpath, statement by statement           *)
(* (mo2_helper.rs:55-150).  m_entries[p] is the entry WalkDir yields at    *)
(* relative path p: "none", a directory "dir" or a regular file "file";    *)
(* the destination holds at p nothing, an older file "junk" or a copy.     *)

Subpaths == {"meshes/precombined", "vis"}

\* the regular files under search_path
RegularFiles == {p \in Paths : m_entries[p] = "file"}

\* collect returns res
Mo2Return(res) == m_pc' = "returned" /\ m_result' = res

Mo2Init ==
    /\ WorkflowIdle
    /\ ToolIdle
    /\ ArchIdle
    /\ m_subpath = ""
    /\ m_search_path \in {"missing", "file", "dir"}
    /\ m_entries \in [Paths -> {"none", "dir", "file"}]
    /\ (m_search_path # "dir" => m_entries = NoFiles)
    /\ m_traversal \in SUBSET RegularFiles
    /\ m_temp_dir \in {NoTemp}
           \cup {[exists |-> TRUE, base |-> b, files |-> f] :
                    b \in {"", "vis"}, f \in [Paths -> {"none", "junk"}]}
    /\ m_pc = "idle"
    /\ m_i = 0
    /\ m_file_count = 0
    /\ m_result = ""

(* mo2_helper.rs:39-41, 50-52: collect_precombines / collect_previs *)
M_Call ==
    /\ m_pc = "idle"
    /\ \E sub \in Subpaths : m_subpath' = sub
    /\ m_pc' = "check"
    /\ UNCHANGED <<m_search_path, m_entries, m_traversal, m_temp_dir, m_i,
                   m_file_count, m_result>>
    /\ UNCHANGED <<wfVars, toolVars, archVars>>

\* variant of M_Check that only looks whether search_path exists
M_Check_exists_only ==
    /\ m_pc = "check"
    /\ IF m_search_path = "missing" THEN Mo2Return("None")
       ELSE m_pc' = "clear" /\ UNCHANGED m_result
    /\ UNCHANGED <<m_subpath, m_search_path, m_entries, m_traversal, m_temp_dir,
                   m_i, m_file_count>>
    /\ UNCHANGED <<wfVars, toolVars, archVars>>

(* mo2_helper.rs:62-84: search_path must exist, be a directory and hold a  *)
(* regular file at some depth, else Ok(None)                               *)
M_Check ==
    /\ m_pc = "check"
    /\ IF m_search_path = "missing" THEN Mo2Return("None")
       ELSE IF m_search_path # "dir" THEN Mo2Return("None")
       ELSE IF RegularFiles = {} THEN Mo2Return("None")
       ELSE m_pc' = "clear" /\ UNCHANGED m_result
    /\ UNCHANGED <<m_subpath, m_search_path, m_entries, m_traversal, m_temp_dir,
                   m_i, m_file_count>>
    /\ UNCHANGED <<wfVars, toolVars, archVars>>

\* variant of M_Clear that keeps what temp_dir holds
M_Clear_keep ==
    /\ m_pc = "clear"
    /\ m_pc' = "create"
    /\ UNCHANGED <<m_subpath, m_search_path, m_entries, m_traversal, m_temp_dir,
                   m_i, m_file_count, m_result>>
    /\ UNCHANGED <<wfVars, toolVars, archVars>>

(* mo2_helper.rs:86-91: an existing temp_dir is removed with all it holds  *)
M_Clear ==
    /\ m_pc = "clear"
    /\ IF m_temp_dir.exists
       THEN \E rmOk \in BOOLEAN :
              IF rmOk
              THEN m_temp_dir' = NoTemp /\ m_pc' = "create" /\ UNCHANGED m_result
              ELSE UNCHANGED m_temp_dir /\ Mo2Return("CleanTempFailed")
       ELSE m_pc' = "create" /\ UNCHANGED <<m_temp_dir, m_result>>
    /\ UNCHANGED <<m_subpath, m_search_path, m_entries, m_traversal,
                   m_i, m_file_count>>
    /\ UNCHANGED <<wfVars, toolVars, archVars>>

(* mo2_helper.rs:92-101: temp_dir and dest_base = temp_dir/subpath are     *)
(* created, file_count = 0                                                 *)
M_Create ==
    /\ m_pc = "create"
    /\ \E mkOk \in BOOLEAN, baseOk \in BOOLEAN :
         IF ~mkOk
         THEN UNCHANGED <<m_temp_dir, m_i>> /\ Mo2Return("CreateTempFailed")
         ELSE IF ~baseOk
         THEN /\ m_temp_dir' = [m_temp_dir EXCEPT !.exists = TRUE]
              /\ UNCHANGED m_i
              /\ Mo2Return("IoError")
         ELSE /\ m_temp_dir' = [m_temp_dir EXCEPT !.exists = TRUE, !.base = m_subpath]
              /\ m_i' = 1
              /\ m_pc' = "walk"
              /\ UNCHANGED m_result
    /\ m_file_count' = 0
    /\ UNCHANGED <<m_subpath, m_search_path, m_entries, m_traversal>>
    /\ UNCHANGED <<wfVars, toolVars, archVars>>

\* variant of M_Walk that skips an entry with a `..` component
M_Walk_skip ==
    /\ m_pc = "walk"
    /\ m_i <= NumPaths
    /\ m_entries[m_i] # "none"
    /\ \E walkOk \in BOOLEAN, copyOk \in BOOLEAN :
         IF ~walkOk
         THEN UNCHANGED <<m_temp_dir, m_i, m_file_count>> /\ Mo2Return("WalkFailed")
         ELSE IF m_entries[m_i] # "file" \/ m_i \in m_traversal
         THEN /\ m_i' = m_i + 1
              /\ UNCHANGED <<m_temp_dir, m_file_count, m_pc, m_result>>
         ELSE IF ~copyOk
         THEN UNCHANGED <<m_temp_dir, m_i, m_file_count>> /\ Mo2Return("CopyFailed")
         ELSE /\ m_temp_dir' = [m_temp_dir EXCEPT !.files[m_i] = "file"]
              /\ m_file_count' = m_file_count + 1
              /\ m_i' = m_i + 1
              /\ UNCHANGED <<m_pc, m_result>>
    /\ UNCHANGED <<m_subpath, m_search_path, m_entries, m_traversal>>
    /\ UNCHANGED <<wfVars, toolVars, archVars>>

(* mo2_helper.rs:103-146: one iteration of the copy loop on an entry:      *)
(* `entry?`, entries that are no regular file are passed over, a relative  *)
(* path with a ParentDir component bails, else the file is copied to       *)
(* dest_base/relative_path                                                 *)
M_Walk ==
    /\ m_pc = "walk"
    /\ m_i <= NumPaths
    /\ m_entries[m_i] # "none"
    /\ \E walkOk \in BOOLEAN, copyOk \in BOOLEAN :
         IF ~walkOk
         THEN UNCHANGED <<m_temp_dir, m_i, m_file_count>> /\ Mo2Return("WalkFailed")
         ELSE IF m_entries[m_i] # "file"
         THEN /\ m_i' = m_i + 1
              /\ UNCHANGED <<m_temp_dir, m_file_count, m_pc, m_result>>
         ELSE IF m_i \in m_traversal
         THEN UNCHANGED <<m_temp_dir, m_i, m_file_count>> /\ Mo2Return("PathTraversal")
         ELSE IF ~copyOk
         THEN UNCHANGED <<m_temp_dir, m_i, m_file_count>> /\ Mo2Return("CopyFailed")
         ELSE /\ m_temp_dir' = [m_temp_dir EXCEPT !.files[m_i] = "file"]
              /\ m_file_count' = m_file_count + 1
              /\ m_i' = m_i + 1
              /\ UNCHANGED <<m_pc, m_result>>
    /\ UNCHANGED <<m_subpath, m_search_path, m_entries, m_traversal>>
    /\ UNCHANGED <<wfVars, toolVars, archVars>>

(* the walk passes a relative path at which search_path holds nothing *)
M_NoEntry ==
    /\ m_pc = "walk"
    /\ m_i <= NumPaths
    /\ m_entries[m_i] = "none"
    /\ m_i' = m_i + 1
    /\ UNCHANGED <<m_subpath, m_search_path, m_entries, m_traversal, m_temp_dir,
                   m_pc, m_file_count, m_result>>
    /\ UNCHANGED <<wfVars, toolVars, archVars>>

(* mo2_helper.rs:148-149: the loop is over, Ok(Some(temp_dir)) *)
M_Return ==
    /\ m_pc = "walk"
    /\ m_i > NumPaths
    /\ Mo2Return("Some")
    /\ UNCHANGED <<m_subpath, m_search_path, m_entries, m_traversal, m_temp_dir,
                   m_i, m_file_count>>
    /\ UNCHANGED <<wfVars, toolVars, archVars>>

Mo2Next ==
    \/ M_Call
    \/ M_Check
    \/ M_Clear
    \/ M_Create
    \/ M_Walk
    \/ M_NoEntry
    \/ M_Return

Mo2Spec == Mo2Init /\ [][Mo2Next]_vars

-----------------------------------------------------------------------------
(* Properties of run_from_step, checked under Spec.                        *)

Last(seq) == seq[Len(seq)]

\* the step of this transition handed `step` to execute_step
Ran(step) == pc = "loop" /\ current_step = step /\ invoked' = Append(invoked, step)

\* C1: run_from_step(k) invokes step procedures only for steps k..8, in
\* strictly ascending step-number order (hence each at most once, none below
\* k), and after step 8 there is no next step: the loop ends.
AscendingFromStart ==
    /\ \A i \in 1..Len(invoked) :
         number(invoked[i]) \in number(start_step)..8
    /\ \A i, j \in 1..Len(invoked) :
         i < j => number(invoked[i]) < number(invoked[j])
    /\ (pc = "loop" /\ current_step # None) =>
         /\ number(current_step) \in number(start_step)..8
         /\ \A i \in 1..Len(invoked) : number(invoked[i]) < number(current_step)
    /\ (invoked # <<>> /\ Last(invoked) = "AddPrevisToArchive" /\ pc # "failed") =>
         current_step = None

AscendingFromStartWitness ==
    /\ pc = "done"
    /\ start_step = "MergeCombinedObjects"
    /\ build_mode = "Clean"
    /\ invoked = <<"MergeCombinedObjects", "CreatePrecombinedArchive", "CompressPSG",
                   "BuildCDX", "GeneratePrevis", "MergePrevis", "AddPrevisToArchive">>

\* C2: in Filtered and Xbox mode steps 4 and 5 are never invoked; skipping
\* them is not an error (a failed run failed in a step that was invoked, or
\* before the loop); only steps 4 and 5 are ever skipped, and only outside
\* Clean mode; a run that completes has invoked or skipped every step from
\* the start step on.
OnlyCleanStepsSkipped ==
    /\ build_mode # "Clean" =>
         \A i \in 1..Len(invoked) : invoked[i] \notin {"CompressPSG", "BuildCDX"}
    /\ \A i \in 1..Len(skipped) :
         skipped[i] \in {"CompressPSG", "BuildCDX"} /\ build_mode # "Clean"
    /\ pc = "failed" =>
         IF invoked = <<>> THEN error = "XPrevisPatchDetected"
         ELSE current_step = Last(invoked) /\ error # ""
    /\ pc = "done" =>
         \A st \in WorkflowStep :
            number(st) >= number(start_step) =>
               IF st \in {"CompressPSG", "BuildCDX"} /\ build_mode # "Clean"
               THEN \E i \in 1..Len(skipped) : skipped[i] = st
               ELSE \E i \in 1..Len(invoked) : invoked[i] = st

OnlyCleanStepsSkippedWitness ==
    /\ pc = "done"
    /\ build_mode = "Filtered"
    /\ start_step = "CompressPSG"
    /\ skipped = <<"CompressPSG", "BuildCDX">>
    /\ invoked = <<"GeneratePrevis", "MergePrevis", "AddPrevisToArchive">>

\* C3: when a step procedure returns an error the run ends there: the error
\* is the result of run_from_step, the failed step is the last one invoked,
\* nothing is invoked or launched afterwards and no summary is printed.
ErrorEndsRun ==
    [][ /\ (error' # "" => pc' = "failed" /\ ~summary')
        /\ (Len(invoked') > Len(invoked) /\ error' # "" =>
               current_step' = Last(invoked'))
        /\ (error # "" => /\ invoked' = invoked
                          /\ launches' = launches
                          /\ error' = error
                          /\ ~summary') ]_vars

ErrorEndsRunWitness ==
    /\ pc = "failed"
    /\ error = "FO4EditLog"
    /\ invoked = <<"GeneratePrecombined", "MergeCombinedObjects">>
    /\ current_step = "MergeCombinedObjects"
    /\ ~summary

\* C4: the loop goes on after step 1 only with meshes/precombined present
\* and non-empty, after step 6 only with vis present and non-empty, after
\* step 4 only with the PSG file gone; otherwise the step returns an error
\* and the run stops at that step.
PostconditionGatesAdvance ==
    [][ /\ (Ran("GeneratePrecombined") =>
               IF precombined_dir' = "nonempty" /\ error' = ""
               THEN pc' = "loop"
               ELSE pc' = "failed" /\ error' # "" /\ current_step' = current_step)
        /\ (Ran("GeneratePrevis") =>
               IF vis_dir' = "nonempty" /\ error' = ""
               THEN pc' = "loop"
               ELSE pc' = "failed" /\ error' # "" /\ current_step' = current_step)
        /\ (Ran("CompressPSG") =>
               IF ~psg_file' /\ error' = ""
               THEN pc' = "loop"
               ELSE pc' = "failed" /\ error' # "" /\ current_step' = current_step)
        /\ (Ran("GeneratePrecombined") /\ pc' = "loop" => precombined_dir' = "nonempty")
        /\ (Ran("GeneratePrevis") /\ pc' = "loop" => vis_dir' = "nonempty")
        /\ (Ran("CompressPSG") /\ pc' = "loop" => ~psg_file') ]_vars

PostconditionGatesAdvanceWitness ==
    /\ pc = "failed"
    /\ error = "NoPrevisGenerated"
    /\ invoked = <<"GeneratePrecombined", "MergeCombinedObjects",
                   "CreatePrecombinedArchive", "CompressPSG", "BuildCDX",
                   "GeneratePrevis">>
    /\ ~psg_file
    /\ vis_dir = "empty"

\* C5: whenever step 3 returns success and the loop goes on, the archive
\* '<data>/<PluginBase> - Main.ba2' exists.
ArchiveExistsAfterStep3 ==
    [][ Ran("CreatePrecombinedArchive") /\ pc' = "loop" => archive_file' ]_vars

\* C6: step 2 with meshes/precombined missing or empty, step 4 with no PSG
\* file, step 7 with vis missing or empty or without Previs.esp: the step
\* returns an error and launches no process.
PreconditionFailureLaunchesNothing ==
    [][ ( \/ Ran("MergeCombinedObjects") /\ precombined_dir \in {"missing", "empty"}
          \/ Ran("CompressPSG") /\ ~psg_file
          \/ Ran("MergePrevis") /\ (vis_dir \in {"missing", "empty"} \/ ~previs_esp) )
        => /\ pc' = "failed"
           /\ error' # ""
           /\ current_step' = current_step
           /\ launches' = launches ]_vars

PreconditionFailureLaunchesNothingWitness ==
    /\ pc = "failed"
    /\ error = "PrevisEspNotFound"
    /\ invoked = <<"GeneratePrevis", "MergePrevis">>
    /\ vis_dir = "nonempty"
    /\ launches = << [step |-> "GeneratePrevis", tool |-> "CreationKit"] >>

\* the user approved clearing `dirName` during this transition
Approved(dirName) ==
    \E i \in (Len(prompts) + 1)..Len(prompts') :
       prompts'[i].dir = dirName /\ prompts'[i].answer = "yes"

\* this transition launched a process
Launched == launches' # launches

\* C7 as stated: a checked directory that exists and has entries (listable
\* or not) and whose clearing was not approved makes step 1 / step 6 fail
\* before Creation Kit is launched, with the directory untouched.
ExistingEntriesNeedApproval ==
    [][ /\ (Ran("GeneratePrecombined") /\ precombined_dir \in {"nonempty", "locked"}
              /\ ~Approved("meshes\\precombined")
              => pc' = "failed" /\ ~Launched /\ precombined_dir' = precombined_dir)
        /\ ((Ran("GeneratePrecombined") \/ Ran("GeneratePrevis"))
              /\ vis_dir \in {"nonempty", "locked"} /\ ~Approved("vis")
              => pc' = "failed" /\ ~Launched /\ vis_dir' = vis_dir) ]_vars

\* C7 (amended): a checked directory that exists, can be listed and has
\* entries makes step 1 / step 6 fail before Creation Kit is launched, with
\* the directory untouched, unless the run is interactive and the user
\* approved clearing it; check_and_clean_directory lets the step continue
\* on such a directory only after the answer yes, and then leaves it
\* existing and empty.
ListedEntriesNeedApproval ==
    [][ /\ (Ran("GeneratePrecombined") /\ precombined_dir = "nonempty"
              /\ ~(interactive /\ Approved("meshes\\precombined"))
              => /\ pc' = "failed"
                 /\ error' \in {"DirectoryNotEmpty", "PromptFailed"}
                 /\ ~Launched
                 /\ precombined_dir' = precombined_dir)
        /\ ((Ran("GeneratePrecombined") \/ Ran("GeneratePrevis"))
              /\ vis_dir = "nonempty" /\ ~(interactive /\ Approved("vis"))
              => pc' = "failed" /\ ~Launched /\ vis_dir' = vis_dir)
        /\ (~interactive => prompts' = <<>>)
        /\ \A a \in Answers, rm \in BOOLEAN, mk \in BOOLEAN :
              LET c == check_and_clean_directory("nonempty", a, rm, mk)
              IN /\ (c.ok => interactive /\ a = "yes" /\ c.dir = "empty")
                 /\ (c.dir # "nonempty" => interactive /\ a = "yes") ]_vars

ListedEntriesNeedApprovalWitness ==
    /\ pc = "failed"
    /\ error = "DirectoryNotEmpty"
    /\ invoked = <<"GeneratePrecombined">>
    /\ prompts = << [step |-> "GeneratePrecombined", dir |-> "meshes\\precombined",
                     answer |-> "yes"],
                    [step |-> "GeneratePrecombined", dir |-> "vis", answer |-> "no"] >>
    /\ precombined_dir = "empty"
    /\ vis_dir = "nonempty"
    /\ launches = <<>>

-----------------------------------------------------------------------------
(* Properties of the tool runners, checked under ToolSpec.                 *)

\* run_with_dll_guard has classified the log of the process that exited
CkClassified ==
    /\ t_op \in CkOps
    /\ proc = "exited"
    /\ \/ t_pc \in {"ck_release", "ck_previs_check"}
       \/ t_pc = "returned" /\ t_op # "generate_previs"

\* C8: what run_with_dll_guard returns after the process exited is fixed by
\* the log (configured, present, readable, holding the handle-limit phrase)
\* and never by the exit code: success when no log is configured or present
\* or when the log read lacks the phrase, an error when the log holds it.
CkResultIgnoresExitCode ==
    CkClassified =>
       IF ~log_file \/ ~ck_log.exists THEN t_result = "Ok"
       ELSE IF contains(ck_log.content, HANDLE_LIMIT_ERROR)
            THEN t_result \in {"HandleLimit", "LogReadFailed"}
            ELSE t_result \in {"Ok", "LogReadFailed"}

CkResultIgnoresExitCodeWitness ==
    /\ CkClassified
    /\ status # 0
    /\ log_file
    /\ ck_log.exists
    /\ ck_log.content = {LOG_ERROR, PREVIS_ERROR}
    /\ t_result = "Ok"
    /\ "NonZeroExit" \in warnings

\* an operation returned after its process had run, and the log is not there
ReturnedWithoutLog ==
    /\ t_pc = "returned"
    /\ proc = "exited"
    /\ \/ t_op \in CkOps /\ log_file /\ ~ck_log.exists
       \/ t_op \in XeOps /\ ~xe_log.exists

\* C9 as stated: an operation whose log is missing after the process ran
\* records a warning and returns success.
MissingLogIsSuccess ==
    ReturnedWithoutLog => t_result = "Ok" /\ warnings # {}

\* C9 (amended): a Creation Kit operation whose log is missing after the
\* process ran records a warning and returns success; an FO4Edit script run
\* whose log is still missing after the log wait timed out (a warning)
\* fails with "Log file not found".
MissingLogByRunner ==
    ReturnedWithoutLog =>
       IF t_op \in CkOps
       THEN t_result = "Ok" /\ "LogNotCreated" \in warnings
       ELSE t_result = "LogNotFound" /\ "LogWaitTimeout" \in warnings

MissingLogByRunnerWitness ==
    /\ ReturnedWithoutLog
    /\ t_op = "merge_previs"
    /\ t_result = "LogNotFound"
    /\ warnings = {"LogWaitTimeout"}

\* C10: when the process is launched the expected log does not exist; a log
\* that cannot be deleted ends the operation with an error and without a
\* launch; a log that is classified holds no text from before the launch.
LogFreshAtLaunch ==
    [][ /\ (proc # "running" /\ proc' = "running" =>
               /\ (t_op \in CkOps /\ log_file => ~ck_log.exists)
               /\ (t_op \in XeOps => ~xe_log.exists))
        /\ (t_pc = "ck_delete_log" /\ log_file /\ ck_log'.exists =>
               t_result' = "LogDeleteFailed")
        /\ (t_pc = "xe_delete_log" /\ xe_log'.exists =>
               t_result' = "LogDeleteFailed")
        /\ (t_result' = "LogDeleteFailed" => t_pc' = "returned" /\ proc' = "none")
        /\ (t_pc = "returned" => proc' = proc)
        /\ (t_pc \in {"ck_check_log", "ck_previs_check"} /\ log_file /\ ck_log.exists =>
               ~ck_log.stale)
        /\ (t_pc = "xe_check_log" /\ xe_log.exists => ~xe_log.stale) ]_vars

LogFreshAtLaunchWitness ==
    /\ t_pc = "returned"
    /\ t_op = "merge_combined_objects"
    /\ t_result = "LogDeleteFailed"
    /\ xe_log.exists /\ xe_log.stale
    /\ proc = "none"

-----------------------------------------------------------------------------
(* Properties of the DLL guard inside run_with_dll_guard (ToolSpec).       *)

\* the DllGuard of run_with_dll_guard is dropped in this transition
Release == guard /\ ~guard'

\* the files recorded in DllManager::disabled_dlls
Recorded == {disabled_dlls[i] : i \in 1..Len(disabled_dlls)}

\* the recorded files that are no longer there under their disabled name
Gone == {d \in Recorded : dlls[d] # "disabled"}

PartialDisableRolledBack ==
    t_result = "DllRenameFailed" => \A d \in INTERFERING_DLLS : dlls[d] # "disabled"

\* C13: a rename that fails while the guard is entered (a DLL that was found
\* is still under its own name afterwards) makes run_with_dll_guard return
\* an error at once, and the process is never launched.
RenameFailureAbortsLaunch ==
    [][ /\ (t_pc = "ck_guard"
              /\ (\E d \in INTERFERING_DLLS : dlls[d] = "present" /\ dlls'[d] = "present")
              => t_result' = "DllRenameFailed" /\ t_pc' = "returned" /\ ~guard')
        /\ (t_result' = "DllRenameFailed" => proc' = "none" /\ t_pc' = "returned")
        /\ (t_pc = "returned" => proc' = proc /\ t_result' = t_result) ]_vars

RenameFailureAbortsLaunchWitness ==
    /\ t_pc = "returned"
    /\ t_op = "compress_psg"
    /\ t_result = "DllRenameFailed"
    /\ proc = "none"
    /\ \E d \in INTERFERING_DLLS : dlls[d] = "present"

\* C14: the Creation Kit process is launched only inside the guard: at the
\* launch no interfering DLL is under its own name and the recorded files
\* are exactly the disabled ones; the guard is entered before any process
\* exists and is released only when no process is running.
LaunchInsideGuard ==
    [][ /\ (t_op \in CkOps /\ proc # "running" /\ proc' = "running" =>
               /\ guard /\ guard'
               /\ \A d \in INTERFERING_DLLS : dlls[d] # "present"
               /\ Recorded = {d \in INTERFERING_DLLS : dlls[d] = "disabled"})
        /\ (t_op \in CkOps /\ proc = "running" => guard)
        /\ (~guard /\ guard' => t_pc = "ck_guard" /\ proc = "none")
        /\ (Release => proc # "running" /\ proc' # "running") ]_vars

LaunchInsideGuardWitness ==
    /\ t_pc = "ck_wait"
    /\ t_op = "build_cdx"
    /\ proc = "running"
    /\ guard
    /\ dlls = [d \in INTERFERING_DLLS |-> "disabled"]

\* C15: at release a recorded file that is gone is skipped with a warning:
\* with no failing rename restore_dlls returns Ok, its count is the number
\* of recorded files that were still there, each of those is back under its
\* original name, and the operation's result is not changed.
MissingDisabledSkipped ==
    [][ Release =>
          LET r == restore_dlls(dlls, disabled_dlls, 0)
          IN /\ r.ok
             /\ r.count = Cardinality(Recorded \ Gone)
             /\ r.missing = Gone
             /\ \A d \in Recorded \ Gone : r.files[d] = "present"
             /\ \A d \in INTERFERING_DLLS \ (Recorded \ Gone) : r.files[d] = dlls[d]
             /\ t_result' = t_result
             /\ ("RestoreFailed" \notin warnings' =>
                   /\ dlls' = r.files
                   /\ (Gone # {} <=> "DisabledDllMissing" \in warnings')) ]_vars

MissingDisabledSkippedWitness ==
    /\ t_pc = "returned"
    /\ t_result = "Ok"
    /\ warnings = {"DisabledDllMissing"}
    /\ \E d \in INTERFERING_DLLS : dlls[d] = "present"
    /\ \E d \in INTERFERING_DLLS : dlls[d] = "absent"
    /\ disabled_dlls = <<>>

-----------------------------------------------------------------------------
(* Further properties of run_from_step, checked under Spec.                *)

\* C28: in Clean mode, when the Creation Kit run of step 1 returned Ok and
\* left the mesh directory populated but no '<base> - Geometry.psg', the
\* step succeeds with the warning about the PSG file and the loop goes on
\* to step 2.
MissingPsgOnlyWarns ==
    [][ (/\ Ran("GeneratePrecombined")
         /\ build_mode = "Clean"
         /\ launches' # launches
         /\ error' # "CreationKitLog"
         /\ precombined_dir' = "nonempty"
         /\ ~psg_file')
        => /\ error' = ""
           /\ pc' = "loop"
           /\ current_step' = "MergeCombinedObjects"
           /\ "PsgNotCreated" \in step_warnings' ]_vars

MissingPsgOnlyWarnsWitness ==
    /\ build_mode = "Clean"
    /\ pc = "loop"
    /\ current_step = "MergeCombinedObjects"
    /\ invoked = <<"GeneratePrecombined">>
    /\ precombined_dir = "nonempty"
    /\ ~psg_file
    /\ step_warnings = {"PsgNotCreated"}

\* C29: the error with which run_from_step ends a step identifies that
\* step, and the error of a log-classified failure holds the matched
\* pattern and the path of the log file.
ErrorsIdentifyStep ==
    (pc = "failed" /\ current_step # None) =>
        LET text == ErrorText(error, current_step)
        IN /\ text.step = current_step
           /\ (error \in {"CreationKitLog", "FO4EditLog"}
                 => text.pattern /\ text.log_path)

\* the iterations of the loop of run_from_step so far, executed or skipped
Iterations == Len(invoked) + Len(skipped)

\* C39: with every step procedure returning, run_from_step returns (Ok or
\* the error of a step) for every start step and build mode: it can always
\* take a step until it has returned and every step changes its control
\* state; its loop makes
\* at most 8 iterations, indeed no more than there are steps from the start
\* step on; an iteration that does not end the run moves from step n to
\* step n + 1, or out of the loop after step 8; and Ok is returned only
\* when the last iteration executed step 8.
RunTerminates ==
    /\ <>(pc \in {"done", "failed"})
    /\ [](pc \in {"start", "loop"} => ENABLED <<Next>>_vars)
    /\ [][<<pc, current_step>>' # <<pc, current_step>>]_vars
    /\ [](Iterations <= 8 /\ Iterations <= 9 - number(start_step))
    /\ [][ (pc = "loop" /\ pc' = "loop") =>
              /\ Iterations' = Iterations + 1
              /\ \/ current_step' = None /\ number(current_step) = 8
                 \/ current_step' # None
                      /\ number(current_step') = number(current_step) + 1 ]_vars
    /\ [][ (pc = "loop" /\ current_step # None /\ pc' # "loop") => pc' = "failed" ]_vars
    /\ [](pc = "done" =>
            /\ error = ""
            /\ invoked # <<>>
            /\ Last(invoked) = "AddPrevisToArchive"
            /\ current_step = None)

RunTerminatesWitness ==
    /\ pc = "done"
    /\ start_step = "GeneratePrecombined"
    /\ build_mode = "Filtered"
    /\ Iterations = 8
    /\ Len(skipped) = 2

-----------------------------------------------------------------------------
(* Properties of the log classification, checked under ToolSpec.           *)

\* a Creation Kit operation with a configured log has returned after its
\* process ran
CkRanAndReturned ==
    t_op \in CkOps /\ t_pc = "returned" /\ proc = "exited" /\ log_file

\* the log left by the run holds a token that is fatal for the operation
FatalTokenInLog ==
    /\ ck_log.exists
    /\ \/ HANDLE_LIMIT_ERROR \in ck_log.content
       \/ t_op = "generate_previs" /\ PREVIS_ERROR \in ck_log.content

\* C25 as stated: once the log was deleted, the guard entered and the
\* process launched, the operation returns an error iff the log exists and
\* holds the handle-limit token or, for generate_previs, the visibility
\* token.
CkErrorIffFatalToken ==
    CkRanAndReturned => (t_result # "Ok" <=> FatalTokenInLog)

\* C25: the same unless the existing log cannot be read, which is an error
\* of its own; the handle-limit token is reported before the visibility
\* token is looked for, and the visibility token fails generate_previs only.
CkErrorIffFatalTokenOrUnreadable ==
    CkRanAndReturned =>
        /\ t_result \in {"Ok", "HandleLimit", "PrevisFailed", "LogReadFailed"}
        /\ (t_result = "LogReadFailed" => ck_log.exists)
        /\ (t_result # "LogReadFailed" => (t_result # "Ok" <=> FatalTokenInLog))
        /\ (t_result = "HandleLimit" => HANDLE_LIMIT_ERROR \in ck_log.content)
        /\ (t_result = "PrevisFailed" =>
              /\ t_op = "generate_previs"
              /\ PREVIS_ERROR \in ck_log.content
              /\ HANDLE_LIMIT_ERROR \notin ck_log.content)

CkErrorIffFatalTokenOrUnreadableWitness ==
    /\ CkRanAndReturned
    /\ t_op = "build_cdx"
    /\ t_result = "Ok"
    /\ ck_log.exists
    /\ ck_log.content = {PREVIS_ERROR}

\* an FO4Edit script run has returned after its process ran and left a log
\* that could be read
XeRanAndReturned ==
    /\ t_op \in XeOps
    /\ t_pc = "returned"
    /\ proc = "exited"
    /\ xe_log.exists
    /\ t_result # "LogReadFailed"

\* C26: after a script run whose log exists and could be read, run_script
\* returns an error iff the log holds 'Error:'; without 'Error:' it returns
\* Ok, and a log without 'Completed: No Errors.' only adds a warning.
XeErrorIffErrorToken ==
    XeRanAndReturned =>
        /\ t_result \in {"Ok", "LogError"}
        /\ (t_result = "LogError" <=> LOG_ERROR \in xe_log.content)
        /\ (t_result = "Ok" /\ LOG_SUCCESS \notin xe_log.content
              => "NoSuccessMessage" \in warnings)

XeErrorIffErrorTokenWitness ==
    /\ XeRanAndReturned
    /\ t_result = "Ok"
    /\ LOG_SUCCESS \notin xe_log.content
    /\ "NoSuccessMessage" \in warnings

LogScanning == t_pc \in {"ck_check_log", "ck_previs_check", "xe_check_log"}

\* what log classification returns when it has read, or tried to read,
\* the log
Classified == {"HandleLimit", "PrevisFailed", "LogError", "LogReadFailed", "LogNotFound"}

CkLogScannedAfterExitWitness ==
    /\ t_op = "generate_previs"
    /\ t_pc = "returned"
    /\ t_result = "PrevisFailed"
    /\ proc = "exited"
    /\ ~ck_log.stale

\* a rename back failed at the release of the guard: a recorded file that
\* was there under its disabled name is still there under that name
RestoreFailedAtRelease ==
    Release /\ \E d \in Recorded : dlls[d] = "disabled" /\ dlls'[d] = "disabled"

\* C37: when restore_dlls fails at the release of the guard, a warning is
\* recorded and nothing else happens: the value run_with_dll_guard is
\* about to return is not changed and the operation goes on as it would
\* have without the failure, so no operation ever returns an error that
\* stems from the restore.
RestoreFailureOnlyWarns ==
    /\ [][ RestoreFailedAtRelease =>
              /\ "RestoreFailed" \in warnings'
              /\ t_result' = t_result
              /\ t_pc' = (IF t_op = "generate_previs" /\ t_result = "Ok"
                          THEN "ck_previs_check" ELSE "returned") ]_vars
    /\ [][ (Release /\ ~RestoreFailedAtRelease) => "RestoreFailed" \notin warnings' ]_vars
    /\ []("RestoreFailed" \in warnings =>
            t_result \in {"Ok", "LaunchFailed", "HandleLimit", "LogReadFailed",
                          "PrevisFailed"})

RestoreFailureOnlyWarnsWitness ==
    /\ t_pc = "returned"
    /\ t_op = "build_cdx"
    /\ t_result = "Ok"
    /\ "RestoreFailed" \in warnings
    /\ proc = "exited"
    /\ \E d \in INTERFERING_DLLS : dlls[d] = "disabled"
    /\ disabled_dlls # <<>>

\* C36: when run_script returns after it has written the temporary
\* Plugins.txt, with Ok or with an error, that file does not exist.
PluginsTxtGoneOnReturn ==
    (t_op \in XeOps /\ t_pc = "returned" /\ t_result # "PluginsWriteFailed")
        => ~plugins_txt

-----------------------------------------------------------------------------
(* Properties of DllManager, checked under DllSpec.                        *)

\* the candidates that exist under their own name
PresentDlls == {d \in INTERFERING_DLLS : OriginalExists(dlls[d])}

\* no file <name>-PJMdisabled exists in the game directory
NoDisabledFile == \A f \in GameFiles : ~DisabledExists(dlls[f])

-----------------------------------------------------------------------------
(* Properties of ArchiveManager, checked under ArchSpec.                   *)

CreateOps == {"create_archive", "create_archive_from_precombines"}

AddOps == {"add_to_archive", "add_previs_to_archive"}

\* create_archive / add_to_archive itself has returned Ok(()): either the
\* caller's operation has, or the MO2 wrapper stands before its cleanup
InnerOk ==
    \/ a_pc = "wrap_cleanup"
    \/ a_pc = "returned" /\ a_result = "Ok" /\ ~a_mo2

\* the files and directories the operations work on
ArchFiles == <<a_archive, a_data, a_collect, a_scratch, a_staging>>

\* the k-th effect of the operation was `eff`
EffectIs(k, eff) == k <= Len(a_trace) /\ a_trace[k].eff = eff

\* C16: while an append (add_to_archive, add_previs_to_archive with or
\* without MO2 directory) runs on an archive that does not exist, no step
\* creates, deletes or modifies a file or directory or runs the tool, and
\* the operation ends with an error.
AppendToMissingTouchesNothing ==
    [][ (a_op \in AddOps /\ ~a_archive.exists
           /\ a_pc \in {"mo2_new", "mo2_collect", "add_check"})
        => /\ ArchFiles' = ArchFiles
           /\ a_calls' = <<>>
           /\ a_result' # "Ok" ]_vars

\* C17: when create_archive has returned Ok, the selected tool was run
\* exactly once, to pack; with Archive2 the source directory is gone; with
\* BSArch no step of create_archive changes the source directory.
CreatePacksOnce ==
    /\ [](a_op \in CreateOps /\ InnerOk =>
            /\ Len(a_calls) = 1
            /\ a_calls[1].tool = a_tool
            /\ a_calls[1].verb = "pack"
            /\ (a_tool = "Archive2" => ~Src.exists))
    /\ [][ (a_op \in CreateOps /\ a_tool = "BSArch" /\ a_pc = "cr_pack")
           => Src' = Src ]_vars

CreatePacksOnceWitness ==
    /\ a_op = "create_archive"
    /\ a_pc = "returned"
    /\ a_result = "Ok"
    /\ a_tool = "Archive2"
    /\ ~a_data.exists
    /\ HasFiles(a_archive)
    /\ Len(a_calls) = 1

\* the BSArch side of C17: create_archive returned Ok and the populated
\* source directory is still there
CreateKeepsSourceWitness ==
    /\ a_op = "create_archive"
    /\ a_pc = "returned"
    /\ a_result = "Ok"
    /\ a_tool = "BSArch"
    /\ HasFiles(a_data)
    /\ Len(a_calls) = 1

SourceDeletedAfterAdd ==
    (a_op \in AddOps /\ InnerOk) => ~Src.exists

CollectDirGoneOnReturn ==
    (a_mo2 /\ a_src = "collect" /\ a_pc = "returned") => ~a_collect.exists

\* add_to_archive with Archive2 has returned after it deleted the archive
\* and the run that recreates it failed
RepackFailed ==
    /\ a_op \in AddOps
    /\ a_tool = "Archive2"
    /\ a_pc = "returned"
    /\ Len(a_trace) >= 4
    /\ a_trace[3] = [eff |-> "delete_archive", ok |-> TRUE]
    /\ ~a_trace[4].ok

\* C30 as stated: when recreating the archive fails after the original was
\* deleted, add_to_archive returns an error and no file exists at the
\* archive path.
NoArchiveAfterFailedRepack ==
    RepackFailed => a_result # "Ok" /\ ~a_archive.exists

\* C30: when recreating the archive fails after the original was deleted,
\* add_to_archive returns the tool's error and nothing restores the
\* original: the archive path holds nothing when the tool could not be
\* started, and otherwise nothing but what the failed run of the tool wrote.
OriginalNotRestored ==
    /\ [](a_pc = "add_repack" => ~a_archive.exists)
    /\ [](RepackFailed =>
            /\ a_result \in {"ArchiveToolNotRun", "ArchiveToolFailed"}
            /\ (a_result = "ArchiveToolNotRun" => ~a_archive.exists))
    /\ [][ (a_pc = "add_repack" /\ a_archive' # a_archive)
           => a_calls' # a_calls ]_vars
    /\ [][ (a_op \in AddOps /\ a_pc = "add_cleanup") => a_archive' = a_archive ]_vars

OriginalNotRestoredWitness ==
    /\ RepackFailed
    /\ a_result = "ArchiveToolFailed"
    /\ ~a_archive.exists
    /\ ~a_scratch.exists

\* add_to_archive runs its Archive2 branch
Repacking == a_op \in AddOps /\ a_tool = "Archive2"

\* the extraction or the copy into the scratch directory has failed
ExtractOrCopyFailed ==
    \/ Len(a_trace) >= 1 /\ a_trace[1] = [eff |-> "extract", ok |-> FALSE]
    \/ Len(a_trace) >= 2 /\ a_trace[2] = [eff |-> "copy", ok |-> FALSE]

\* C31: with Archive2, add_to_archive reaches the deletion of the archive
\* only after exactly a successful extraction and a successful copy, and no
\* other step removes or changes the archive before; when the extraction or
\* the copy has failed, add_to_archive returns an error, the deletion was
\* never attempted and the archive file exists.
ArchiveDeletedAfterExtractAndCopy ==
    /\ [](Repacking /\ a_pc = "add_delete_archive" =>
            a_trace = <<[eff |-> "extract", ok |-> TRUE], [eff |-> "copy", ok |-> TRUE]>>)
    /\ [](Repacking /\ a_pc = "returned" /\ ExtractOrCopyFailed =>
            /\ a_result \in {"ArchiveToolNotRun", "ArchiveToolFailed", "IoError"}
            /\ \A k \in 1..Len(a_trace) : a_trace[k].eff # "delete_archive"
            /\ a_archive.exists)
    /\ [][ (Repacking /\ a_pc \in {"add_check", "add_prepare", "add_extract", "add_copy"})
           => a_archive' = a_archive ]_vars
    /\ [][ (Repacking /\ ExtractOrCopyFailed) => a_archive' = a_archive ]_vars

ArchiveDeletedAfterExtractAndCopyWitness ==
    /\ a_op = "add_to_archive"
    /\ a_tool = "Archive2"
    /\ a_pc = "returned"
    /\ a_result = "IoError"
    /\ Len(a_trace) >= 2
    /\ a_trace[2] = [eff |-> "copy", ok |-> FALSE]
    /\ HasFiles(a_archive)
    /\ \E p \in Paths : a_scratch.files[p] = "new"

\* the closure of add_to_archive (extract, copy, delete archive, recreate)
\* has failed and add_to_archive has returned
ClosureFailed == Repacking /\ a_pc = "returned" /\ a_closure # ""

\* no step of the operation has deleted, or tried to delete, the source
SourceNeverDeleted == \A k \in 1..Len(a_trace) : a_trace[k].eff # "delete_source"

RepackDirHoldsOldAndNew ==
    /\ [](Repacking /\ a_pc = "add_delete_archive" =>
            /\ a_scratch.exists
            /\ \A p \in Paths :
                 a_scratch.files[p] = IF Src.files[p] # "none" THEN Src.files[p]
                                      ELSE a_archive.files[p])
    /\ [][ (Repacking /\ a_pc \in {"add_delete_archive", "add_repack"})
           => a_scratch' = a_scratch ]_vars
    /\ [][ (Repacking /\ a_pc = "add_repack" /\ a_archive' # a_archive)
           => a_archive'.files = a_scratch.files ]_vars

RepackDirHoldsOldAndNewWitness ==
    /\ a_op = "add_to_archive"
    /\ a_tool = "Archive2"
    /\ a_pc = "add_delete_archive"
    /\ \E p \in Paths : /\ a_archive.files[p] = "old"
                         /\ a_data.files[p] = "new"
                         /\ a_scratch.files[p] = "new"
    /\ \E p \in Paths : /\ a_archive.files[p] = "old"
                         /\ a_data.files[p] = "none"
                         /\ a_scratch.files[p] = "old"

\* the pack run of create_archive has failed
PackFailed ==
    /\ a_op \in CreateOps
    /\ Len(a_trace) >= 1
    /\ a_trace[1] = [eff |-> "pack", ok |-> FALSE]

\* C34: with either tool, when the pack run of create_archive could not be
\* started or exited with a failure status, create_archive returns the
\* error of the tool at once: nothing follows the failed run, and neither
\* the run nor anything after it changes the source directory.
FailedPackKeepsSource ==
    /\ [](PackFailed =>
            /\ a_pc = "returned"
            /\ a_result \in {"ArchiveToolNotRun", "ArchiveToolFailed"}
            /\ (a_result = "ArchiveToolNotRun" <=> a_calls = <<>>)
            /\ Len(a_trace) = 1)
    /\ [][ (a_op \in CreateOps /\ a_pc = "cr_pack" /\ PackFailed') => Src' = Src ]_vars

FailedPackKeepsSourceWitness ==
    /\ a_op = "create_archive"
    /\ a_tool = "Archive2"
    /\ a_pc = "returned"
    /\ a_result = "ArchiveToolFailed"
    /\ Len(a_calls) = 1
    /\ HasFiles(a_data)

\* the BSArch side of C34: the tool could not be started and the populated
\* source directory is still there
FailedBsarchPackKeepsSourceWitness ==
    /\ a_op = "create_archive"
    /\ a_tool = "BSArch"
    /\ a_pc = "returned"
    /\ a_result = "ArchiveToolNotRun"
    /\ HasFiles(a_data)

\* the operations that steps 3 and 8 of the workflow call
StepOps == {"create_archive_from_precombines", "add_previs_to_archive"}

\* C40: in steps 3 and 8 a pack run of Archive2 gets the Xbox compression
\* option exactly when the build mode is Xbox, an extraction never gets
\* it, and every run of BSArch is the same pack invocation without the
\* option in every build mode.
XboxOptionOnlyForArchive2 ==
    a_op \in StepOps =>
        \A k \in 1..Len(a_calls) :
            /\ a_calls[k].tool = a_tool
            /\ (a_calls[k].xbox <=>
                   (build_mode = "Xbox" /\ a_tool = "Archive2" /\ a_calls[k].verb = "pack"))
            /\ (a_tool = "BSArch" =>
                   a_calls[k] = [tool |-> "BSArch", verb |-> "pack", xbox |-> FALSE])

XboxOptionOnlyForArchive2Witness ==
    /\ a_op = "add_previs_to_archive"
    /\ build_mode = "Xbox"
    /\ a_tool = "Archive2"
    /\ a_pc = "returned"
    /\ a_result = "Ok"
    /\ Len(a_calls) = 2
    /\ ~a_calls[1].xbox
    /\ a_calls[2].xbox

\* the BSArch side of C40: step 3 in Xbox mode ran the tool without the
\* option
XboxModeBsarchWitness ==
    /\ a_op = "create_archive_from_precombines"
    /\ build_mode = "Xbox"
    /\ a_tool = "BSArch"
    /\ a_pc = "returned"
    /\ a_result = "Ok"
    /\ a_calls = <<[tool |-> "BSArch", verb |-> "pack", xbox |-> FALSE]>>

\* the other side of C40: in a build mode other than Xbox the pack run of
\* Archive2 has no option
PcModeArchive2Witness ==
    /\ a_op = "create_archive_from_precombines"
    /\ build_mode = "Filtered"
    /\ a_tool = "Archive2"
    /\ a_pc = "returned"
    /\ a_result = "Ok"
    /\ a_calls = <<[tool |-> "Archive2", verb |-> "pack", xbox |-> FALSE]>>

-----------------------------------------------------------------------------
(* Properties of Mo2Helper::collect_files_from_subpath, checked under      *)
(* Mo2Spec.                                                                *)

\* C22: when staging_dir/subpath does not exist, is no directory or holds
\* no regular file at any depth, collect returns None, and up to that
\* return the destination directory is neither created, cleared nor
\* written to.
NoneLeavesDestination ==
    /\ [][ (m_pc = "check" /\ (m_search_path # "dir" \/ RegularFiles = {}))
           => m_pc' = "returned" /\ m_result' = "None" ]_vars
    /\ [][ (m_pc \in {"idle", "check"}) => m_temp_dir' = m_temp_dir ]_vars

NoneLeavesDestinationWitness ==
    /\ m_result = "None"
    /\ m_search_path = "dir"
    /\ \E p \in Paths : m_entries[p] = "dir"
    /\ \E p \in Paths : m_temp_dir.files[p] = "junk"

\* C23: when collect returns Some, the destination exists with
\* dest_base = temp_dir/subpath, holds a copy at every relative path at
\* which search_path holds a regular file, and holds nothing else.
CollectCopiesEveryFile ==
    m_result = "Some" =>
        /\ RegularFiles # {}
        /\ m_temp_dir.exists
        /\ m_temp_dir.base = m_subpath
        /\ \A p \in Paths :
             m_temp_dir.files[p] = IF p \in RegularFiles THEN "file" ELSE "none"
        /\ m_file_count = Cardinality(RegularFiles)

CollectCopiesEveryFileWitness ==
    /\ m_result = "Some"
    /\ \E p \in Paths : m_entries[p] = "file" /\ m_temp_dir.files[p] = "file"
    /\ \E p \in Paths : m_entries[p] # "file" /\ m_temp_dir.files[p] = "none"

=============================================================================
